---- MODULE Spec2Model ----
(***************************************************************************)
(* A state-machine model of the ODLA DNNL backend                          *)
(* (ODLA/platforms/odla_dnnl.cc): Computations with their Value arena and  *)
(* execution plan, Contexts, buffer binding and plan replay in compiled    *)
(* and in interpreter (immediate) builds.                                  *)
(*                                                                         *)
(* Tensor data is symbolic.  A raw buffer holds a term together with the   *)
(* memory layout its bytes are in; a primitive that reads a buffer through *)
(* a descriptor of another layout obtains a misread term.                  *)
(***************************************************************************)
EXTENDS Integers, Sequences, FiniteSets, TLC

\* ------------------------------------------------------------- bounds
\* Values made by create-argument, create-value and create-constant calls.
MaxArgs == 2
\* Lowering calls made.
MaxOps == 1
\* Execute calls made.
MaxRuns == 2
\* Bind and data calls made.
MaxBinds == 2
\* Computations ever created by a caller that builds one graph.
MaxComps == 1
\* Computations ever created by a caller that builds several graphs.
MaxGraphs == 2
\* Contexts ever created by the caller.
MaxCtxs == 1
\* Contexts ever created by a caller that runs one graph from several threads.
MaxRunners == 2
\* Largest rank of a Value an interpreter creates.
MaxRank == 6
\* Largest rank and largest dimension of the tensors whose elements are followed.
MaxDims == 3
MaxDim == 4
\* Caller-owned buffers (pointers the caller may hand to the API).
NumUserBufs == 2

\* ------------------------------------------------------------- universe
Threads == {1, 2}
MainThread == 1

\* odla_value_shape values the caller uses.
Shapes == { <<2, 2>>, <<1, 1, 1, 2>> }

\* odla_value_id strings the caller uses: for the Values it creates, for the
\* results of lowering calls, and for lookups by name.
ArgIds == {"x"}
OpIds == {"y"}
Names == {"x", "y"}

ODLA_SUCCESS == "ODLA_SUCCESS"
ODLA_FAILURE == "ODLA_FAILURE"
\* Outcomes of a call that does not return normally.
ABORT == "abort"      \* a failed assert() in a build without NDEBUG
CRASH == "crash"      \* a null dereference
THROW == "throw"      \* a dnnl::error leaving the call
\* What a function of this file can hand back as odla_status.
Statuses == {ODLA_SUCCESS, ODLA_FAILURE}

\* Memory layouts: the layout a Value declares, and the library's opaque one.
PLAIN == "plain"
BLOCKED == "blocked"

\* odla_element_type, the element types a caller names.
ODLA_FLOAT32 == "ODLA_FLOAT32"
ODLA_INT32 == "ODLA_INT32"
ODLA_INT64 == "ODLA_INT64"
ODLA_BFLOAT16 == "ODLA_BFLOAT16"
ElementTypes == {ODLA_FLOAT32, ODLA_INT32, ODLA_INT64, ODLA_BFLOAT16}

\* The dnnl::memory::data_type a memory descriptor is given for an element type.
getDataType(ty) ==
  CASE ty = ODLA_FLOAT32 -> "f32"
    [] ty = ODLA_INT32 -> "s32"
    [] ty = ODLA_INT64 -> "s32"
    [] ty = ODLA_BFLOAT16 -> "bf16"
    [] OTHER -> "undef"

\* odla_value_type: an element type and a shape.
ValueType(element_type, shape) == [element_type |-> element_type, shape |-> shape]
Float32(shape) == ValueType(ODLA_FLOAT32, shape)

\* ------------------------------------------------------------- terms
\* A term is <<tag, <<subterm, ...>> >>.
Term(tag, subs) == <<tag, subs>>
\* The content of storage nobody has written yet.
Undef == Term("undef", <<>>)
\* What is read when bytes laid out one way are read through another layout.
Misread(v) == Term("misread", <<v>>)
\* The caller's data in caller buffer p.
UserData(p) == Term("data", <<Term(ToString(p), <<>>)>>)

RECURSIVE Defined(_)
Defined(v) ==
  /\ v[1] \notin {"undef", "misread"}
  /\ \A i \in 1..Len(v[2]) : Defined(v[2][i])

\* ------------------------------------------------------------- state
VARIABLES
  g_comps,           \* static g_comps: the Computations ever created
  g_comp,            \* thread_local g_comp: index into g_comps, 0 = nullptr
  g_interpret_mode,  \* thread_local g_interpret_mode
  mems,              \* the dnnl::memory objects: [h: buffer, fmt: layout and
                     \* dt: data type of the descriptor]
  bufs,              \* raw storage: [lay: layout of the bytes, val: term]
  ctxs,              \* the _odla_context objects the caller created
  interp_context,    \* the function-local static context of InterpretIfNeeded
  ran,               \* tags of the plan entries the current call executed, in order
  build,             \* how the library was compiled
  driver,            \* which family of call sequences the caller makes
  twin,              \* the heap a compiled build holds after the same
                     \* construction calls (kept in the "lower" family)
  made,              \* the calls made so far: [args: creations, ops: lowering
                     \* calls, runs: Execute calls, binds: bind and data calls,
                     \* rebound: a bind or data call was made since the last
                     \* Execute, fed: Execute calls that followed one, alias:
                     \* the input and the result of the last odla_Reshape,
                     \* types: each Value created with the element type the
                     \* caller named]
  call,              \* the API call that returned last, with its outcome
  race,              \* odla_CreateComputation calls in progress on two threads
                     \* at once (the "race" family): [pc: where each thread
                     \* is, n: the end of g_comps it read, obj: the Computation
                     \* it made, reg: the slots of g_comps]; g_comps then holds
                     \* every Computation made, registered or not
  conc,              \* odla_ExecuteComputation calls in progress at once (the
                     \* "conc" family): [start: the buffers before the first
                     \* of them began, out: the caller's buffers as each
                     \* context's call returned, writer: the context whose run
                     \* wrote each buffer last, mixed: the contexts whose run
                     \* read an engine-allocated buffer the other run wrote]
  probe              \* one tensor followed element by element (the "probe"
                     \* family): [fn: the function applied, dims, rhs, perm,
                     \* axis: its inputs, data: the elements of the tensor,
                     \* row-major, strides: the view computed, eff: the axis
                     \* the primitive is made with, out: what the primitive
                     \* leaves, n: a count returned, bpe, splat: the element
                     \* size and the do_splat flag a Constant is constructed
                     \* with, ok: the function returned, stage: how far the
                     \* caller's sequence has come]

vars == <<g_comps, g_comp, g_interpret_mode, mems, bufs, ctxs, interp_context,
          ran, build, driver, twin, made, call, race, conc, probe>>

\* What no call changes, and what no call made as a whole changes.
fixed == <<build, driver, race, conc, probe>>

\* A Value handle is <<computation, index in vals>>; the null handle:
NullValue == <<0, 0>>

\* _odla_computation()
NewComputation ==
  [primitives |-> <<>>, args |-> <<>>, vals |-> <<>>,
   inputs |-> <<>>, outputs |-> <<>>, nent |-> 0]

\* _odla_context, value-initialised by new _odla_context()
\* at: the plan entry a call of odla_ExecuteComputation in progress on this
\* context executes next (0: none in progress), run: the Computation it replays.
NewContext ==
  [comp |-> 0, stream |-> FALSE, eng |-> 0, pending |-> 0, live |-> TRUE,
   at |-> 0, run |-> 0]

\* The part of the state the lowering and replay code works on.
\* imm: the code under #if ODLA_DNNL_BUILD_AS_INTERPRETER is compiled in.
Heap ==
  [comps |-> g_comps, mems |-> mems, bufs |-> bufs, ctxs |-> ctxs,
   ictx |-> interp_context, ran |-> <<>>, imm |-> build.interpreter]

Commit(h) ==
  /\ g_comps' = h.comps
  /\ mems' = h.mems
  /\ bufs' = h.bufs
  /\ ctxs' = h.ctxs
  /\ interp_context' = h.ictx
  /\ ran' = h.ran

\* std::unordered_map<std::string, odla_value> as a sequence of <<key, value>>
\* pairs with distinct keys.
MapHas(m, k) == \E i \in 1..Len(m) : m[i][1] = k
MapGet(m, k) == m[CHOOSE i \in 1..Len(m) : m[i][1] = k][2]
\* m[k] = v
MapPut(m, k, v) ==
  IF MapHas(m, k)
  THEN [i \in 1..Len(m) |-> IF m[i][1] = k THEN <<k, v>> ELSE m[i]]
  ELSE Append(m, <<k, v>>)

\* Values of all Computations of heap h.
ValueHandles(cs) == UNION { { <<c, i>> : i \in 1..Len(cs[c].vals) } : c \in 1..Len(cs) }
Val(h, hd) == h.comps[hd[1]].vals[hd[2]]

\* ------------------------------------------------------------- helpers
RECURSIVE Product(_, _)
Product(dims, i) == IF i > Len(dims) THEN 1 ELSE dims[i] * Product(dims, i + 1)

\* std::accumulate(dims.dims, dims.dims + dims.size, 1,
\* std::multiplies<size_t>()): the initial value 1 is an int, so the running
\* product is an int; each step multiplies in size_t and stores the low 32
\* bits back.  The multiplication is done on 16-bit halves (dimensions stay
\* below 2^15, so no partial product leaves the 32 bits of a term here).
GetTotalElements(dims) ==
  LET Times(acc, d) ==
        LET lo == (acc % 65536) * d
            hi == (((acc \div 65536) % 65536) * d + (lo \div 65536)) % 65536
        IN  (IF hi >= 32768 THEN hi - 65536 ELSE hi) * 65536 + (lo % 65536)
      RECURSIVE Accumulate(_, _)
      Accumulate(acc, i) ==
        IF i > Len(dims) THEN acc ELSE Accumulate(Times(acc, dims[i]), i + 1)
  IN  Accumulate(1, 1)

\* dnnl::memory(md, eng): a memory object over fresh engine-allocated storage;
\* of the descriptor md it keeps the layout fmt and the data type dt.
\* Returns the heap; the new object is LastMem of it.
NewMemory(h, fmt, dt) ==
  [h EXCEPT !.bufs = Append(@, [lay |-> fmt, val |-> Undef]),
            !.mems = Append(@, [h |-> Len(h.bufs) + 1, fmt |-> fmt, dt |-> dt])]

\* dnnl::memory(md, eng, ptr): a memory object over the caller's storage.
NewMemoryAt(h, fmt, dt, ptr) ==
  [h EXCEPT !.mems = Append(@, [h |-> ptr, fmt |-> fmt, dt |-> dt])]

LastMem(h) == Len(h.mems)

\* What a primitive created for layout fmt reads through memory object m.
ReadAs(h, m, fmt) ==
  LET b == h.bufs[h.mems[m].h]
  IN  IF b.val = Undef THEN Undef
      ELSE IF b.lay = fmt THEN b.val
      ELSE Misread(b.val)

\* A registry that keeps the element count in place of the dimensions.
CreateValue_Flat(h, c, m, shape, id) ==
  [h EXCEPT !.comps[c].vals =
     Append(@, [mem |-> m, is_const |-> FALSE, shape |-> <<GetTotalElements(shape)>>,
                name |-> id])]

CreateValue(h, c, m, shape, id) ==
  [h EXCEPT !.comps[c].vals =
     Append(@, [mem |-> m, is_const |-> FALSE, shape |-> shape, name |-> id])]

LastValue(h, c) == <<c, Len(h.comps[c].vals)>>

\* g_comp->primitives.push_back(prim)
PushPrimitive(h, c, kind, srcfmts, dstfmt) ==
  [h EXCEPT !.comps[c].primitives =
              Append(@, [kind |-> kind, src |-> srcfmts, dst |-> dstfmt,
                         tag |-> h.comps[c].nent + 1]),
            !.comps[c].nent = @ + 1]

\* g_comp->args.push_back({...}); it follows the push of its primitive.
PushArgs(h, c, srcs, dst) ==
  [h EXCEPT !.comps[c].args =
              Append(@, [src |-> srcs, dst |-> dst, tag |-> h.comps[c].nent])]

\* primitive.execute(stream, args): the sources are read through the layouts
\* the primitive was created for, the destination is written in its layout.
Execute(h, prim, a) ==
  LET ins == [i \in 1..Len(a.src) |-> ReadAs(h, a.src[i], prim.src[i])]
      out == IF prim.kind = "reorder" THEN ins[1] ELSE Term(prim.kind, ins)
  IN  [h EXCEPT !.bufs[h.mems[a.dst].h] = [lay |-> prim.dst, val |-> out],
                !.ran = Append(@, prim.tag)]

\* for (size_t i = 0, e = comp->primitives.size(); i < e; ++i)
\*   comp->primitives[i].execute(stream, comp->args[i]);
RECURSIVE ReplayFrom(_, _, _)
ReplayFrom(h, c, i) ==
  IF i > Len(h.comps[c].primitives) THEN h
  ELSE ReplayFrom(Execute(h, h.comps[c].primitives[i], h.comps[c].args[i]), c, i + 1)

Replay(h, c) == ReplayFrom(h, c, 1)

\* ------------------------------------------------------------- elements
\* static dnnl::memory::dims getStrides(const odla_value_shape& od): the loop
\* runs from the last but one dimension down.
getStrides(od) ==
  LET RECURSIVE StridesFrom(_)
      StridesFrom(i) ==
        IF i >= Len(od) THEN <<1>>
        ELSE LET rest == StridesFrom(i + 1) IN <<rest[1] * od[i + 1]>> \o rest
  IN  IF od = <<>> THEN <<>> ELSE StridesFrom(1)

\* A view that pads the strides behind the operand's own.
rhs_strides_Trailing(dims_lhs, dims_rhs) ==
  getStrides(dims_rhs) \o [i \in 1..(Len(dims_lhs) - Len(dims_rhs)) |-> 0]

\* The strides binary_eltwise writes into rhs_md when the ranks differ:
\* strides.insert(strides.begin(), 0), once for every dimension lhs has more.
rhs_strides(dims_lhs, dims_rhs) ==
  LET RECURSIVE InsertZeros(_, _)
      InsertZeros(strides, n) ==
        IF n <= 0 THEN strides ELSE InsertZeros(<<0>> \o strides, n - 1)
  IN  InsertZeros(getStrides(dims_rhs), Len(dims_lhs) - Len(dims_rhs))

\* The offset of the element at index idx (from 0) under a strided descriptor.
Offset(idx, strides) ==
  LET RECURSIVE OffsetFrom(_)
      OffsetFrom(i) ==
        IF i > Len(idx) THEN 0 ELSE idx[i] * strides[i] + OffsetFrom(i + 1)
  IN  OffsetFrom(1)

\* The index, in dims, of the k-th element (from 0) in row-major order.
Unravel(k, dims) ==
  LET st == getStrides(dims) IN [i \in 1..Len(dims) |-> (k \div st[i]) % dims[i]]

\* new_strides of odla_Transpose with "auto& new_strides = strides".
new_strides_InPlace(input_dims, permutations) ==
  LET RECURSIVE Fill(_, _)
      Fill(ns, i) == IF i > Len(permutations) THEN ns
                     ELSE Fill([ns EXCEPT ![i] = ns[permutations[i]]], i + 1)
  IN  Fill(getStrides(input_dims), 1)

\* new_strides[i] = strides[permutations.dims[i]]; dimensions count from 1 here.
new_strides(input_dims, permutations) ==
  LET strides == getStrides(input_dims)
  IN  [i \in 1..Len(strides) |->
         IF i <= Len(permutations) THEN strides[permutations[i]] ELSE strides[i]]

\* The reorder odla_Transpose queues, executed: the source is read as
\* output_dims under new_strides, the destination is written row-major.
TransposeElements(data, input_dims, permutations, output_dims) ==
  LET ns == new_strides(input_dims, permutations)
  IN  [k \in 1..GetTotalElements(output_dims) |->
         data[1 + Offset(Unravel(k - 1, output_dims), ns)]]

\* The output_dims a caller passes with a permutation, and the inverse of one.
Permuted(dims, perm) == [i \in 1..Len(dims) |-> dims[perm[i]]]
Inverse(perm) == [i \in 1..Len(perm) |-> CHOOSE j \in 1..Len(perm) : perm[j] = i]

\* data_layout.Bytes(ty.GetDataType()) of the element types constants have.
ElementSizes == {1, 2, 4}

\* Dimensions of the shapes whose elements are counted.
Extents == {1, 2, 3, 1024}

\* The tensors followed: operands of a broadcast whose element counts divide,
\* and inputs of a transposition with a permutation of their dimensions.
ProbeShapes == UNION { [1..r -> 1..MaxDim] : r \in 1..MaxDims }
DimPermutations(n) == { p \in [1..n -> 1..n] : \A i, j \in 1..n : p[i] = p[j] => i = j }
NoProbe ==
  [fn |-> "", dims |-> <<>>, rhs |-> <<>>, perm |-> <<>>, axis |-> 0,
   data |-> <<>>, strides |-> <<>>, eff |-> 0, out |-> <<>>, n |-> 0,
   bpe |-> 0, splat |-> FALSE, ok |-> TRUE, stage |-> 0]
ProbeInputs ==
  { [NoProbe EXCEPT !.fn = "binary_eltwise", !.dims = dl, !.rhs = dr] :
      <<dl, dr>> \in { q \in ProbeShapes \X ProbeShapes :
                         /\ Len(q[2]) < Len(q[1])
                         /\ GetTotalElements(q[1]) % GetTotalElements(q[2]) = 0 } }
  \cup
  UNION { { [NoProbe EXCEPT !.fn = "odla_Transpose", !.dims = d, !.perm = p,
                             !.data = [k \in 1..GetTotalElements(d) |-> k]] :
              p \in DimPermutations(Len(d)) } : d \in ProbeShapes }
  \cup
  UNION { { [NoProbe EXCEPT !.fn = "odla_Softmax", !.dims = d, !.axis = a] :
              a \in (0 - Len(d))..(Len(d) - 1) } : d \in ProbeShapes }
  \cup
  \* two inputs of a concatenation: the second has e entries along the
  \* dimension the caller means and the first's dimensions elsewhere
  UNION { { [NoProbe EXCEPT
               !.fn = "odla_Concat", !.dims = d, !.axis = a,
               !.rhs = [d EXCEPT ![(IF a < 0 THEN Len(d) + a ELSE a) + 1] = e],
               !.data = [k \in 1..(GetTotalElements(d) +
                                   (GetTotalElements(d) \div
                                      d[(IF a < 0 THEN Len(d) + a ELSE a) + 1]) * e) |-> k]] :
              a \in (0 - Len(d))..(Len(d) - 1), e \in 1..MaxDim } : d \in ProbeShapes }
  \cup
  { [NoProbe EXCEPT !.fn = "GetTotalElements", !.dims = d] :
      d \in UNION { [1..r -> Extents] : r \in 0..MaxRank } }
  \cup
  \* a Constant of n elements of b bytes each, from a source of distinct bytes
  { [NoProbe EXCEPT !.fn = "Constant", !.dims = <<n>>, !.bpe = b, !.splat = f,
                    !.data = [k \in 1..(n * b) |-> k]] :
      n \in 1..MaxDim, b \in ElementSizes, f \in BOOLEAN }

\* binary_eltwise builds the view of its right operand.
binary_eltwise_View ==
  /\ probe.fn = "binary_eltwise" /\ probe.stage = 0
  /\ probe' = [probe EXCEPT !.strides = rhs_strides(probe.dims, probe.rhs),
                            !.stage = 1]
  /\ UNCHANGED <<g_comps, g_comp, g_interpret_mode, mems, bufs, ctxs, interp_context,
                 ran, build, driver, twin, made, call, race, conc>>

\* odla_Transpose by probe.perm, executed; then odla_Transpose of the result
\* by the inverse permutation, executed.
odla_Transpose_Executed ==
  /\ probe.fn = "odla_Transpose" /\ probe.stage \in {0, 1}
  /\ LET perm == IF probe.stage = 0 THEN probe.perm ELSE Inverse(probe.perm)
         src  == IF probe.stage = 0 THEN probe.dims ELSE Permuted(probe.dims, probe.perm)
         out  == Permuted(src, perm)
     IN  probe' = [probe EXCEPT !.data = TransposeElements(probe.data, src, perm, out),
                               !.strides = new_strides(src, perm),
                               !.stage = @ + 1]
  /\ UNCHANGED <<g_comps, g_comp, g_interpret_mode, mems, bufs, ctxs, interp_context,
                 ran, build, driver, twin, made, call, race, conc>>

\* Python-style resolution of a negative axis.
axis_Softmax_Counted(dims, axis) == IF axis < 0 THEN Len(dims) + axis ELSE axis

\* axis = axis < 0 ? dims.size - 1 : axis; dimensions count from 0.
axis_Softmax(dims, axis) == IF axis < 0 THEN Len(dims) - 1 ELSE axis

\* softmax_forward over dimension axis (from 0) of a tensor of dimensions
\* dims: for every element, the first of the elements it is normalised with
\* (those at the same index in every other dimension).
SoftmaxGroups(dims, axis) ==
  [k \in 1..GetTotalElements(dims) |->
     1 + Offset([Unravel(k - 1, dims) EXCEPT ![axis + 1] = 0], getStrides(dims))]

\* odla_Softmax of the tensor drawn, executed.
odla_Softmax_Executed ==
  /\ probe.fn = "odla_Softmax" /\ probe.stage = 0
  /\ LET axis == axis_Softmax(probe.dims, probe.axis)
     IN  probe' = [probe EXCEPT !.eff = axis,
                               !.out = SoftmaxGroups(probe.dims, axis),
                               !.stage = 1]
  /\ UNCHANGED <<g_comps, g_comp, g_interpret_mode, mems, bufs, ctxs, interp_context,
                 ran, build, driver, twin, made, call, race, conc>>

\* A negative axis resolved as odla_Softmax resolves it.
axis_Concat_Last(dims, axis) == IF axis < 0 THEN Len(dims) - 1 ELSE axis

\* if (axis < 0) axis = inputs.values[0]->shape.size + axis
axis_Concat(dims, axis) == IF axis < 0 THEN Len(dims) + axis ELSE axis

\* dnnl::concat over dimension axis (from 0), executed: src_mds are the
\* descriptors and src_mems the elements bound to DNNL_ARG_MULTIPLE_SRC + i,
\* in slot order.  The primitive descriptor is refused (<<>>) when the
\* sources disagree off the axis or do not add up to output_dims.
ConcatElements(src_mds, src_mems, axis, output_dims) ==
  LET rank == Len(output_dims)
      fits == /\ axis \in 0..(rank - 1)
              /\ \A s \in 1..2 : Len(src_mds[s]) = rank
              /\ \A i \in 1..rank :
                   output_dims[i] = IF i = axis + 1
                                    THEN src_mds[1][i] + src_mds[2][i]
                                    ELSE src_mds[1][i]
              /\ \A i \in (1..rank) \ {axis + 1} : src_mds[2][i] = src_mds[1][i]
      From(s, idx) == src_mems[s][1 + Offset(idx, getStrides(src_mds[s]))]
  IN  IF ~fits THEN <<>>
      ELSE [k \in 1..GetTotalElements(output_dims) |->
              LET idx == Unravel(k - 1, output_dims)
              IN  IF idx[axis + 1] < src_mds[1][axis + 1] THEN From(1, idx)
                  ELSE From(2, [idx EXCEPT ![axis + 1] = @ - src_mds[1][axis + 1]])]

\* odla_Concat of the two tensors drawn, executed; output_dims is what the
\* caller computed for the axis it means.
odla_Concat_Executed ==
  /\ probe.fn = "odla_Concat" /\ probe.stage = 0
  /\ LET n1   == GetTotalElements(probe.dims)
         at   == (IF probe.axis < 0 THEN Len(probe.dims) + probe.axis ELSE probe.axis) + 1
         output_dims == [probe.dims EXCEPT ![at] = @ + probe.rhs[at]]
         src_mds  == <<probe.dims, probe.rhs>>
         src_mems == <<SubSeq(probe.data, 1, n1),
                       SubSeq(probe.data, n1 + 1, Len(probe.data))>>
         axis == axis_Concat(probe.dims, probe.axis)
     IN  probe' = [probe EXCEPT
                     !.eff = axis,
                     !.out = ConcatElements(src_mds, src_mems, axis, output_dims),
                     !.stage = 1]
  /\ UNCHANGED <<g_comps, g_comp, g_interpret_mode, mems, bufs, ctxs, interp_context,
                 ran, build, driver, twin, made, call, race, conc>>

\* Constant::Constant (lib/ir/constant.cc): data_ after the constructor, and
\* whether the constructor returned.  data_.resize(bytes) zero-fills; the
\* splat loop "for (i = 0, e = bytes / byte_per_element; i != e;
\* i += byte_per_element) copy_n(src, byte_per_element, data_.begin() + i)"
\* counts i in bytes against a number of elements: it stops when i meets e,
\* and when i steps over e it writes on, past the end of data_, until the
\* process faults.
Constant(bytes, byte_per_element, src, do_splat) ==
  LET e == bytes \div byte_per_element
      RECURSIVE Splat(_, _)
      Splat(data_, i) ==
        IF i = e THEN [data_ |-> data_, ok |-> TRUE]
        ELSE IF i + byte_per_element > bytes THEN [data_ |-> data_, ok |-> FALSE]
        ELSE Splat([k \in 1..bytes |->
                      IF k \in (i + 1)..(i + byte_per_element) THEN src[k - i]
                      ELSE data_[k]], i + byte_per_element)
  IN  IF ~do_splat THEN [data_ |-> SubSeq(src, 1, bytes), ok |-> TRUE]
      ELSE Splat([k \in 1..bytes |-> 0], 0)

\* A Constant is constructed from the source drawn.
Constant_Constructed ==
  /\ probe.fn = "Constant" /\ probe.stage = 0
  /\ LET made_ == Constant(probe.dims[1] * probe.bpe, probe.bpe, probe.data, probe.splat)
     IN  probe' = [probe EXCEPT !.out = made_.data_, !.ok = made_.ok, !.stage = 1]
  /\ UNCHANGED <<g_comps, g_comp, g_interpret_mode, mems, bufs, ctxs, interp_context,
                 ran, build, driver, twin, made, call, race, conc>>

\* GetTotalElements of the shape drawn.
GetTotalElements_Returned ==
  /\ probe.fn = "GetTotalElements" /\ probe.stage = 0
  /\ probe' = [probe EXCEPT !.n = GetTotalElements(probe.dims), !.stage = 1]
  /\ UNCHANGED <<g_comps, g_comp, g_interpret_mode, mems, bufs, ctxs, interp_context,
                 ran, build, driver, twin, made, call, race, conc>>

\* ------------------------------------------------------------- calls
RETURNED == "returned"   \* a call that returns an odla_value returned one

Call(op, st) ==
  [op |-> op, status |-> st, t |-> 0, comp |-> 0, v |-> NullValue, ptr |-> 0,
   ctx |-> 0, name |-> "", ret |-> NullValue, first |-> 0, shape |-> <<>>,
   w |-> NullValue, unit |-> TRUE, bias |-> NullValue, pd |-> <<>>,
   element_type |-> ""]

\* The process is still running.
Alive == call.status \notin {ABORT, CRASH}

Drivers ==
  {"lower", "bind", "run", "life", "data", "threads", "race", "conc", "probe",
   "types"}
\* The families whose callers build several graphs.
SeveralGraphs == {"life", "threads", "race"}


LiveCtxs == { x \in 1..Len(ctxs) : ctxs[x].live }

\* ------------------------------------------------------------- Init
NoRuns ==
  [start |-> <<>>, out |-> [x \in 1..MaxRunners |-> <<>>], writer |-> <<>>,
   mixed |-> {}]

NullContext == [NewContext EXCEPT !.live = FALSE]

\* The static Initializer of an interpreter build runs
\* odla_CreateComputation(nullptr) and sets g_interpret_mode on the thread that
\* loads the library.
Init ==
  /\ build \in [interpreter : BOOLEAN, ndebug : BOOLEAN]
  /\ g_comps = IF build.interpreter THEN <<NewComputation>> ELSE <<>>
  /\ g_comp = [t \in Threads |-> IF build.interpreter /\ t = MainThread THEN 1 ELSE 0]
  /\ g_interpret_mode = [t \in Threads |-> build.interpreter /\ t = MainThread]
  /\ mems = <<>>
  /\ bufs = [p \in 1..NumUserBufs |-> [lay |-> PLAIN, val |-> UserData(p)]]
  /\ ctxs = <<>>
  /\ interp_context = NullContext
  /\ ran = <<>>
  /\ driver \in Drivers
  \* the element-level functions are the same in every build
  /\ driver = "probe" => build = [interpreter |-> FALSE, ndebug |-> FALSE]
  /\ twin = [comps |-> g_comps, mems |-> mems, bufs |-> bufs, ctxs |-> ctxs,
             ictx |-> interp_context, ran |-> <<>>, imm |-> FALSE]
  /\ made = [args |-> 0, ops |-> 0, runs |-> 0, binds |-> 0, rebound |-> FALSE,
             fed |-> 0, alias |-> <<>>, types |-> {}]
  /\ call = Call("init", ODLA_SUCCESS)
  /\ race = [pc |-> [t \in Threads |-> "idle"], n |-> [t \in Threads |-> 0],
             obj |-> [t \in Threads |-> 0],
             reg |-> [i \in 1..Len(g_comps) |-> i]]
  /\ conc = NoRuns
  /\ probe \in (IF driver = "probe" THEN ProbeInputs ELSE {NoProbe})

\* ------------------------------------------------------------- lifecycle
odla_CreateComputation(t) ==
  /\ Alive
  /\ Len(g_comps) < (IF driver \in SeveralGraphs THEN MaxGraphs ELSE MaxComps)
  /\ g_comps' = Append(g_comps, NewComputation)
  /\ g_comp' = [g_comp EXCEPT ![t] = Len(g_comps) + 1]
  /\ call' = [Call("odla_CreateComputation", ODLA_SUCCESS) EXCEPT
                !.t = t, !.comp = Len(g_comps) + 1]
  /\ ran' = <<>>
  /\ twin' = IF driver = "lower"
             THEN [twin EXCEPT !.comps = Append(@, NewComputation)] ELSE twin
  /\ UNCHANGED <<g_interpret_mode, mems, bufs, ctxs, interp_context, fixed, made>>

\* odla_CreateComputation on two threads at once. g_comps is a static vector
\* and nothing serialises the calls: push_back reads the vector's end, stores
\* the new unique_ptr there and advances the end, and the next statement
\* reads back(). The unsynchronised accesses are a data race; the outcomes
\* are those of the interleavings of these steps, or a crash when a thread
\* stores through an end another thread has moved.
push_back_Begin(t) ==
  /\ Alive
  /\ race.pc[t] = "idle"
  /\ g_comps' = Append(g_comps, NewComputation)
  /\ race' = [race EXCEPT !.pc[t] = "store", !.n[t] = Len(race.reg),
                          !.obj[t] = Len(g_comps) + 1]
  /\ UNCHANGED <<g_comp, g_interpret_mode, mems, bufs, ctxs, interp_context, ran,
                 build, driver, twin, made, call, conc, probe>>

push_back_Store(t) ==
  /\ Alive
  /\ race.pc[t] = "store"
  /\ \/ /\ race' = [race EXCEPT
                       !.pc[t] = "back",
                       !.reg = [i \in 1..(race.n[t] + 1) |->
                                  IF i = race.n[t] + 1 THEN race.obj[t] ELSE race.reg[i]]]
        /\ UNCHANGED call
     \/ /\ race.n[t] < Len(race.reg)
        /\ race' = [race EXCEPT !.pc[t] = "done"]
        /\ call' = [Call("odla_CreateComputation", CRASH) EXCEPT !.t = t]
  /\ UNCHANGED <<g_comps, g_comp, g_interpret_mode, mems, bufs, ctxs, interp_context,
                 ran, build, driver, twin, made, conc, probe>>

\* g_comp = g_comps.back().get(); *computation = g_comp; return ODLA_SUCCESS
odla_CreateComputation_Return(t) ==
  /\ Alive
  /\ race.pc[t] = "back"
  /\ g_comp' = [g_comp EXCEPT ![t] = race.reg[Len(race.reg)]]
  /\ race' = [race EXCEPT !.pc[t] = "done"]
  /\ call' = [Call("odla_CreateComputation", ODLA_SUCCESS) EXCEPT
                !.t = t, !.comp = race.reg[Len(race.reg)]]
  /\ ran' = <<>>
  /\ UNCHANGED <<g_comps, g_interpret_mode, mems, bufs, ctxs, interp_context,
                 build, driver, twin, made, conc, probe>>

\* g_comp declared without thread_local.
odla_SetActiveComputation_Global(t, c) ==
  /\ Alive
  /\ g_comp' = [u \in Threads |-> c]
  /\ call' = [Call("odla_SetActiveComputation", ODLA_SUCCESS) EXCEPT
                !.t = t, !.comp = c]
  /\ ran' = <<>>
  /\ UNCHANGED <<g_comps, g_interpret_mode, mems, bufs, ctxs, interp_context, fixed, twin, made>>

odla_SetActiveComputation(t, c) ==
  /\ Alive
  /\ g_comp' = [g_comp EXCEPT ![t] = c]
  /\ call' = [Call("odla_SetActiveComputation", ODLA_SUCCESS) EXCEPT
                !.t = t, !.comp = c]
  /\ ran' = <<>>
  /\ UNCHANGED <<g_comps, g_interpret_mode, mems, bufs, ctxs, interp_context, fixed, twin, made>>

\* A destroy that erases the Computation's entry from g_comps.
odla_DestroyComputation_Erases(c) ==
  /\ Alive
  /\ g_comps' = [i \in 1..(Len(g_comps) - 1) |->
                   IF i < c THEN g_comps[i] ELSE g_comps[i + 1]]
  /\ g_comp' = [t \in Threads |->
                  IF g_comp[t] = c THEN 0
                  ELSE IF g_comp[t] > c THEN g_comp[t] - 1 ELSE g_comp[t]]
  /\ call' = [Call("odla_DestroyComputation", ODLA_SUCCESS) EXCEPT !.comp = c]
  /\ ran' = <<>>
  /\ UNCHANGED <<g_interpret_mode, mems, bufs, ctxs, interp_context, fixed, twin, made>>

\* The body is "// TODO:" and a return.
odla_DestroyComputation(c) ==
  /\ Alive
  /\ call' = [Call("odla_DestroyComputation", ODLA_SUCCESS) EXCEPT !.comp = c]
  /\ ran' = <<>>
  /\ UNCHANGED <<g_comps, g_comp, g_interpret_mode, mems, bufs, ctxs,
                 interp_context, fixed, twin, made>>

odla_CreateContext(t) ==
  /\ Alive
  /\ Len(ctxs) < (IF driver = "conc" THEN MaxRunners ELSE MaxCtxs)
  /\ ctxs' = Append(ctxs, [NewContext EXCEPT !.comp = g_comp[t]])
  /\ call' = [Call("odla_CreateContext", ODLA_SUCCESS) EXCEPT
                !.t = t, !.ctx = Len(ctxs) + 1]
  /\ ran' = <<>>
  /\ UNCHANGED <<g_comps, g_comp, g_interpret_mode, mems, bufs, interp_context, fixed, twin, made>>

odla_DestroyContext(x) ==
  /\ Alive
  /\ ctxs' = [ctxs EXCEPT ![x].live = FALSE]
  /\ call' = [Call("odla_DestroyContext", ODLA_SUCCESS) EXCEPT !.ctx = x]
  /\ ran' = <<>>
  /\ UNCHANGED <<g_comps, g_comp, g_interpret_mode, mems, bufs, interp_context, fixed, twin, made>>

\* ------------------------------------------------------------- execution
\* if (context->stream == nullptr) context->stream = make_unique<stream>(eng)
EnsureStream(x, c) ==
  IF x.stream THEN x ELSE [x EXCEPT !.stream = TRUE, !.eng = c]

\* The primitives handed to the stream and not yet known to be complete.
Submitted(x, n) == [x EXCEPT !.pending = @ + n]

\* A return without context->stream->wait().
Wait_Skipped(x) == x

\* context->stream->wait()
Wait(x) == [x EXCEPT !.pending = 0]

ExecuteComputation(h, c, x) ==
  LET h1 == [h EXCEPT !.ctxs[x] = EnsureStream(@, c)]
      h2 == Replay(h1, c)
      h3 == [h2 EXCEPT !.ctxs[x] = Submitted(@, Len(h2.ran))]
  IN  [h3 EXCEPT !.ctxs[x] = Wait(@)]

odla_ExecuteComputation(c, x) ==
  /\ Alive
  /\ made.runs < MaxRuns
  /\ Commit(ExecuteComputation(Heap, c, x))
  /\ call' = [Call("odla_ExecuteComputation", ODLA_SUCCESS) EXCEPT
                !.comp = c, !.ctx = x]
  /\ made' = [made EXCEPT !.runs = @ + 1, !.rebound = FALSE,
                          !.fed = IF made.rebound THEN @ + 1 ELSE @]
  /\ UNCHANGED <<g_comp, g_interpret_mode, fixed, twin>>

\* odla_ExecuteComputation on two contexts at once: the calls take no lock,
\* so the plan entries of the two loops interleave. Both loops execute the
\* same primitives on the same argument maps, that is on the same memory
\* objects.
Running == { x \in 1..Len(ctxs) : ctxs[x].at # 0 }
UserBytes == SubSeq(bufs, 1, NumUserBufs)

\* An Execute that waits until no other run is in progress.
odla_ExecuteComputation_Begin_Locked(c, x) ==
  /\ Alive
  /\ made.runs < MaxRuns
  /\ Running = {}
  /\ ctxs' = [ctxs EXCEPT ![x] = [EnsureStream(@, c) EXCEPT !.at = 1, !.run = c]]
  /\ made' = [made EXCEPT !.runs = @ + 1, !.rebound = FALSE]
  /\ conc' = [NoRuns EXCEPT !.start = bufs,
                            !.writer = [b \in 1..Len(bufs) |-> 0]]
  /\ UNCHANGED <<g_comps, g_comp, g_interpret_mode, mems, bufs, interp_context, ran,
                 build, driver, twin, call, race, probe>>

\* if (context->stream == nullptr) ...; i = 0, e = comp->primitives.size()
odla_ExecuteComputation_Begin(c, x) ==
  /\ Alive
  /\ made.runs < MaxRuns
  /\ ctxs[x].at = 0
  /\ ctxs' = [ctxs EXCEPT ![x] = [EnsureStream(@, c) EXCEPT !.at = 1, !.run = c]]
  /\ made' = [made EXCEPT !.runs = @ + 1, !.rebound = FALSE]
  /\ conc' = IF Running = {}
             THEN [NoRuns EXCEPT !.start = bufs,
                                 !.writer = [b \in 1..Len(bufs) |-> 0]]
             ELSE conc
  /\ UNCHANGED <<g_comps, g_comp, g_interpret_mode, mems, bufs, interp_context, ran,
                 build, driver, twin, call, race, probe>>

\* comp->primitives[i].execute(*context->stream, comp->args[i]); ++i
odla_ExecuteComputation_Step(x) ==
  LET c    == ctxs[x].run
      i    == ctxs[x].at
      a    == g_comps[c].args[i]
      h    == Execute(Heap, g_comps[c].primitives[i], a)
      srcs == { mems[a.src[k]].h : k \in 1..Len(a.src) }
  IN  /\ Alive
      /\ x \in Running
      /\ i <= Len(g_comps[c].primitives)
      /\ bufs' = h.bufs
      /\ ran' = h.ran
      /\ ctxs' = [ctxs EXCEPT ![x] = [Submitted(@, 1) EXCEPT !.at = i + 1]]
      /\ conc' = [conc EXCEPT
                    !.writer[mems[a.dst].h] = x,
                    !.mixed = IF \E b \in srcs : b > NumUserBufs /\ conc.writer[b] \notin {0, x}
                              THEN @ \cup {x} ELSE @]
      /\ UNCHANGED <<g_comps, g_comp, g_interpret_mode, mems, interp_context,
                     build, driver, twin, made, call, race, probe>>

\* context->stream->wait(); return ODLA_SUCCESS
odla_ExecuteComputation_Return(x) ==
  /\ Alive
  /\ x \in Running
  /\ ctxs[x].at > Len(g_comps[ctxs[x].run].primitives)
  /\ ctxs' = [ctxs EXCEPT ![x] = [Wait(@) EXCEPT !.at = 0]]
  /\ conc' = [conc EXCEPT !.out[x] = UserBytes]
  /\ call' = [Call("odla_ExecuteComputation", ODLA_SUCCESS) EXCEPT
                !.comp = ctxs[x].run, !.ctx = x]
  /\ ran' = <<>>
  /\ UNCHANGED <<g_comps, g_comp, g_interpret_mode, mems, bufs, interp_context,
                 build, driver, twin, made, race, probe>>

\* InterpretIfNeeded() without its g_comp->args.clear().
InterpretIfNeeded_KeepsArgs(h, t) ==
  IF ~h.imm \/ ~g_interpret_mode[t] THEN h
  ELSE
    LET c  == g_comp[t]
        h1 == IF h.ictx.live THEN h
              ELSE [h EXCEPT !.ictx = [NewContext EXCEPT !.comp = c]]
        h2 == [h1 EXCEPT !.ictx = EnsureStream(@, c)]
        h3 == Replay(h2, c)
        h4 == [h3 EXCEPT !.ictx = Wait(Submitted(@, Len(h3.ran)))]
    IN  [h4 EXCEPT !.comps[c].primitives = <<>>]

\* InterpretIfNeeded(), called on thread t.
InterpretIfNeeded(h, t) ==
  IF ~h.imm \/ ~g_interpret_mode[t] THEN h
  ELSE
    LET c  == g_comp[t]
        h1 == IF h.ictx.live THEN h
              ELSE [h EXCEPT !.ictx = [NewContext EXCEPT !.comp = c]]
        h2 == [h1 EXCEPT !.ictx = EnsureStream(@, c)]
        h3 == Replay(h2, c)
        h4 == [h3 EXCEPT !.ictx = Wait(Submitted(@, Len(h3.ran)))]
    IN  [h4 EXCEPT !.comps[c].primitives = <<>>, !.comps[c].args = <<>>]

\* ------------------------------------------------------------- outcomes
\* What a lowering function leaves behind: the heap, how it ended, its result.
Ok(h, ret) == [h |-> h, st |-> RETURNED, ret |-> ret]
Fail(h, st) == [h |-> h, st |-> st, ret |-> NullValue]

\* assert(cond) stops the process unless the build defines NDEBUG.
AssertFails(cond) == ~cond /\ ~build.ndebug

\* What the caller handed to a call: operands, a shape, unit dilations (and,
\* to a convolution, a bias and the formats the library prefers).
Given(v, w, shape, unit) == [v |-> v, w |-> w, shape |-> shape, unit |-> unit]

\* A graph-construction call F on thread t: it runs on the heap and ends
\* with an outcome; the compiled build's heap takes the same call.
Finish(op, t, given, F(_)) ==
  LET r == F(Heap) IN
  /\ Commit(r.h)
  /\ call' = [Call(op, r.st) EXCEPT
                !.t = t, !.comp = g_comp[t], !.ret = r.ret,
                !.v = given.v, !.w = given.w, !.shape = given.shape,
                !.unit = given.unit,
                !.bias = IF "bias" \in DOMAIN given THEN given.bias ELSE NullValue,
                !.pd = IF "pd" \in DOMAIN given THEN given.pd ELSE <<>>,
                !.element_type =
                   IF "element_type" \in DOMAIN given THEN given.element_type ELSE "",
                !.first = IF g_comp[t] = 0 THEN 0 ELSE g_comps[g_comp[t]].nent]
  /\ twin' = IF driver = "lower" THEN F(twin).h ELSE twin
  /\ UNCHANGED <<g_comp, g_interpret_mode, fixed>>

\* A creation call, a lowering call.
Created(op, t, given, F(_)) ==
  /\ Finish(op, t, given, F)
  /\ made' = [made EXCEPT !.args = @ + 1,
                          !.types = IF call'.status = RETURNED /\ call'.element_type # ""
                                    THEN @ \cup {<<call'.ret, call'.element_type>>}
                                    ELSE @]
LoweredOn(op, t, given, F(_)) ==
  Finish(op, t, given, F) /\ made' = [made EXCEPT !.ops = @ + 1]
Lowered(op, t, F(_)) == LoweredOn(op, t, Given(NullValue, NullValue, <<>>, TRUE), F)

\* Every construction function dereferences g_comp.
OnActive(h, t, r) == IF g_comp[t] = 0 THEN Fail(h, CRASH) ELSE r

ActiveValues(t) == { hd \in ValueHandles(g_comps) : hd[1] = g_comp[t] }
\* The caller creates at most MaxArgs Values and makes at most MaxOps lowering calls.
Room == made.args < MaxArgs
MayLower == made.ops < MaxOps

\* ------------------------------------------------------------- values
\* The caller's type.
Typed(type) ==
  Given(NullValue, NullValue, type.shape, TRUE) @@ [element_type |-> type.element_type]

\* md = getMemoryDesc(type.shape, ODLA_FLOAT32)
CreateArgument(h, t, type, id) ==
  LET c  == g_comp[t]
      h1 == NewMemory(h, PLAIN, getDataType(ODLA_FLOAT32))
      h2 == CreateValue(h1, c, LastMem(h1), type.shape, id)
      v  == LastValue(h2, c)
  IN  Ok([h2 EXCEPT !.comps[c].inputs = MapPut(@, id, v)], v)

odla_CreateArgument(t, type, id) ==
  /\ Alive /\ Room
  /\ Created("odla_CreateArgument", t, Typed(type),
            LAMBDA h : OnActive(h, t, CreateArgument(h, t, type, id)))

\* assert(g_interpret_mode); then odla_CreateArgument
odla_CreateValue(t, type, id) ==
  /\ Alive /\ Room
  /\ Created("odla_CreateValue", t, Typed(type),
            LAMBDA h : IF AssertFails(g_interpret_mode[t]) THEN Fail(h, ABORT)
                       ELSE OnActive(h, t, CreateArgument(h, t, type, id)))

\* md = getMemoryDesc(type)
CreateConstant(h, t, type, ptr, id) ==
  LET c  == g_comp[t]
      h1 == NewMemoryAt(h, PLAIN, getDataType(type.element_type), ptr)
      h2 == CreateValue(h1, c, LastMem(h1), type.shape, id)
      v  == LastValue(h2, c)
  IN  Ok([h2 EXCEPT !.comps[c].vals[v[2]].is_const = TRUE], v)

odla_CreateConstant(t, type, ptr, id) ==
  /\ Alive /\ Room
  /\ Created("odla_CreateConstant", t, Typed(type),
            LAMBDA h : OnActive(h, t, CreateConstant(h, t, type, ptr, id)))

odla_GetValueType(hd) ==
  /\ Alive
  /\ call' = [Call("odla_GetValueType", ODLA_SUCCESS) EXCEPT
                !.v = hd, !.element_type = ODLA_FLOAT32,
                !.shape = Val(Heap, hd).shape]
  /\ ran' = <<>>
  /\ UNCHANGED <<g_comps, g_comp, g_interpret_mode, mems, bufs, ctxs,
                 interp_context, fixed, twin, made>>

\* ------------------------------------------------------------- binding
\* mem.set_data_handle(ptr)
SetDataHandle(h, m, ptr) == [h EXCEPT !.mems[m].h = ptr]

\* memcpy(dst, src, size)
Memcpy(h, dst, src) == [h EXCEPT !.bufs[dst] = h.bufs[src]]

BindToArgument(h, hd, ptr) == SetDataHandle(h, Val(h, hd).mem, ptr)

\* A bind or data call: the heap it leaves and the status it hands back.
Bound(op, h, st, hd, ptr, x, name) ==
  /\ made.binds < MaxBinds
  /\ Commit(h)
  /\ call' = [Call(op, st) EXCEPT !.v = hd, !.ptr = ptr, !.ctx = x, !.name = name]
  /\ made' = [made EXCEPT !.binds = @ + 1, !.rebound = TRUE]
  /\ UNCHANGED <<g_comp, g_interpret_mode, fixed, twin>>

odla_BindToArgument(hd, ptr, x) ==
  /\ Alive
  /\ Bound("odla_BindToArgument", BindToArgument(Heap, hd, ptr), ODLA_SUCCESS,
           hd, ptr, x, "")

\* assert(g_interpret_mode); value->mem.set_data_handle(ptr)
odla_SetValueData(t, hd, ptr) ==
  /\ Alive
  /\ IF AssertFails(g_interpret_mode[t])
     THEN Bound("odla_SetValueData", Heap, ABORT, hd, ptr, 0, "")
     ELSE Bound("odla_SetValueData", BindToArgument(Heap, hd, ptr), ODLA_SUCCESS,
                hd, ptr, 0, "")

\* assert(g_interpret_mode == true); memcpy(...); and no return statement: the
\* status handed back is whatever the return register holds.
odla_GetValueData(t, hd, ptr, st) ==
  /\ Alive
  /\ IF AssertFails(g_interpret_mode[t])
     THEN Bound("odla_GetValueData", Heap, ABORT, hd, ptr, 0, "")
     ELSE Bound("odla_GetValueData", Memcpy(Heap, ptr, mems[Val(Heap, hd).mem].h),
                st, hd, ptr, 0, "")

\* odla_value value = context->comp->inputs[name]: operator[] of
\* std::unordered_map inserts a null odla_value under a key it does not hold.
Lookup(h, c, table, name) ==
  IF MapHas(h.comps[c][table], name) THEN h
  ELSE [h EXCEPT !.comps[c][table] = MapPut(@, name, NullValue)]

Found(h, c, table, name) == MapGet(h.comps[c][table], name)

odla_BindToArgumentById(name, ptr, x) ==
  /\ Alive
  /\ LET c == ctxs[x].comp IN
     IF c = 0
     THEN Bound("odla_BindToArgumentById", Heap, CRASH, NullValue, ptr, x, name)
     ELSE LET h1 == Lookup(Heap, c, "inputs", name)
              hd == Found(h1, c, "inputs", name)
          IN  IF hd = NullValue
              THEN Bound("odla_BindToArgumentById", h1, CRASH, hd, ptr, x, name)
              ELSE Bound("odla_BindToArgumentById", BindToArgument(h1, hd, ptr),
                         ODLA_SUCCESS, hd, ptr, x, name)

\* g_comp->outputs[val->name] = val; and no return statement.
odla_SetValueAsOutput(t, hd, st) ==
  /\ Alive
  /\ made.binds < MaxBinds
  /\ Commit(IF g_comp[t] = 0 THEN Heap
            ELSE [Heap EXCEPT !.comps[g_comp[t]].outputs =
                                 MapPut(@, Val(Heap, hd).name, hd)])
  /\ call' = [Call("odla_SetValueAsOutput", IF g_comp[t] = 0 THEN CRASH ELSE st) EXCEPT
                !.t = t, !.comp = g_comp[t], !.v = hd,
                !.name = IF g_comp[t] = 0 THEN "" ELSE Val(Heap, hd).name]
  /\ made' = [made EXCEPT !.binds = @ + 1, !.rebound = TRUE]
  /\ UNCHANGED <<g_comp, g_interpret_mode, fixed, twin>>

\* odla_BindToOutput without its is_const branch.
BindToOutput_Repoints(h, hd, ptr) == SetDataHandle(h, Val(h, hd).mem, ptr)

BindToOutput(h, hd, ptr) ==
  IF Val(h, hd).is_const
  THEN Memcpy(h, ptr, h.mems[Val(h, hd).mem].h)
  ELSE SetDataHandle(h, Val(h, hd).mem, ptr)

odla_BindToOutput(hd, ptr, x) ==
  /\ Alive
  /\ Bound("odla_BindToOutput", BindToOutput(Heap, hd, ptr), ODLA_SUCCESS,
           hd, ptr, x, "")

odla_BindToOutputById(name, ptr, x) ==
  /\ Alive
  /\ LET c == ctxs[x].comp IN
     IF c = 0
     THEN Bound("odla_BindToOutputById", Heap, CRASH, NullValue, ptr, x, name)
     ELSE LET h1 == Lookup(Heap, c, "outputs", name)
              hd == Found(h1, c, "outputs", name)
          IN  IF hd = NullValue
              THEN Bound("odla_BindToOutputById", h1, CRASH, hd, ptr, x, name)
              ELSE Bound("odla_BindToOutputById", BindToOutput(h1, hd, ptr),
                         ODLA_SUCCESS, hd, ptr, x, name)

\* ------------------------------------------------------------- lowering
MemOf(h, hd) == Val(h, hd).mem
\* value->mem.get_desc()
DescOf(h, hd) == h.mems[MemOf(h, hd)].fmt

\* The steps most lowering functions share: allocate the destination, push the
\* primitive, create the result Value, push the argument map, drain.
Lower(h, t, kind, srcs, srcfmts, retfmt, dstfmt, shape, id, drain) ==
  LET c  == g_comp[t]
      h1 == NewMemory(h, retfmt, h.mems[srcs[1]].dt)
      m  == LastMem(h1)
      h2 == PushPrimitive(h1, c, kind, srcfmts, dstfmt)
      h3 == CreateValue(h2, c, m, shape, id)
      h4 == PushArgs(h3, c, srcs, m)
  IN  Ok(IF drain THEN InterpretIfNeeded(h4, t) ELSE h4, LastValue(h3, c))

\* dnnl::binary::desc accepts a second source whose dimensions equal the
\* first's or are 1.
NativeBinaryOk(dl, dr) ==
  /\ Len(dl) = Len(dr)
  /\ \A i \in 1..Len(dl) : dr[i] = dl[i] \/ dr[i] = 1

binary_eltwise(h, t, algo, lhs, rhs, id) ==
  LET dims_lhs == Val(h, lhs).shape
      dims_rhs == Val(h, rhs).shape
      ln == GetTotalElements(dims_lhs)
      rn == GetTotalElements(dims_rhs)
      differ == Len(dims_lhs) # Len(dims_rhs)
      \* rhs_md: lhs_md with the broadcast strides, lhs_md, or rhs's own desc
      rhs_md == IF differ \/ ln = rn THEN PLAIN ELSE DescOf(h, rhs)
  IN  IF differ /\ AssertFails(ln >= rn /\ ln % rn = 0) THEN Fail(h, ABORT)
      ELSE IF ~differ /\ ln # rn /\ ~NativeBinaryOk(dims_lhs, dims_rhs)
      THEN Fail(h, THROW)
      ELSE Lower(h, t, algo, <<MemOf(h, lhs), MemOf(h, rhs)>>, <<PLAIN, rhs_md>>,
                 PLAIN, PLAIN, dims_lhs, id, TRUE)

odla_Add(t, lhs, rhs, id) ==
  /\ Alive /\ MayLower
  /\ LoweredOn("odla_Add", t, Given(lhs, rhs, <<>>, TRUE), LAMBDA h : OnActive(h, t, binary_eltwise(h, t, "binary_add", lhs, rhs, id)))

odla_Mul(t, lhs, rhs, id) ==
  /\ Alive /\ MayLower
  /\ LoweredOn("odla_Mul", t, Given(lhs, rhs, <<>>, TRUE), LAMBDA h : OnActive(h, t, binary_eltwise(h, t, "binary_mul", lhs, rhs, id)))

\* Sigmoid, LeakyRelu and Clamp: descriptor and destination from input->mem.get_desc()
Eltwise(h, t, algo, input, id) ==
  Lower(h, t, algo, <<MemOf(h, input)>>, <<DescOf(h, input)>>,
        DescOf(h, input), DescOf(h, input), Val(h, input).shape, id, TRUE)

odla_Sigmoid(t, input, id) ==
  /\ Alive /\ MayLower
  /\ Lowered("odla_Sigmoid", t, LAMBDA h : OnActive(h, t, Eltwise(h, t, "eltwise_logistic", input, id)))

LeakyRelu(h, t, input, id) == Eltwise(h, t, "eltwise_relu", input, id)

odla_LeakyRelu(t, input, id) ==
  /\ Alive /\ MayLower
  /\ Lowered("odla_LeakyRelu", t, LAMBDA h : OnActive(h, t, LeakyRelu(h, t, input, id)))

\* return odla_LeakyRelu(input, 0, value_id)
odla_Relu(t, input, id) ==
  /\ Alive /\ MayLower
  /\ Lowered("odla_Relu", t, LAMBDA h : OnActive(h, t, LeakyRelu(h, t, input, id)))

odla_Clamp(t, input, id) ==
  /\ Alive /\ MayLower
  /\ Lowered("odla_Clamp", t, LAMBDA h : OnActive(h, t, Eltwise(h, t, "eltwise_clip", input, id)))

\* The reorder of odla_Transpose is pushed with its argument map; the function
\* returns without a call of InterpretIfNeeded.
Transpose(h, t, input, output_dims, id) ==
  Lower(h, t, "transpose", <<MemOf(h, input)>>, <<PLAIN>>, PLAIN, PLAIN,
        output_dims, id, FALSE)

odla_Transpose(t, input, output_dims, id) ==
  /\ Alive /\ MayLower
  /\ Lowered("odla_Transpose", t, LAMBDA h : OnActive(h, t, Transpose(h, t, input, output_dims, id)))

\* return CreateValue(input->mem, output_dims, id)
Reshape(h, t, input, output_dims, id) ==
  LET h1 == CreateValue(h, g_comp[t], MemOf(h, input), output_dims, id)
  IN  Ok(h1, LastValue(h1, g_comp[t]))

\* The call makes a Value and no plan entry.
odla_Reshape(t, input, output_dims, id) ==
  /\ Alive /\ Room
  /\ Finish("odla_Reshape", t, Given(input, NullValue, output_dims, TRUE),
            LAMBDA h : OnActive(h, t, Reshape(h, t, input, output_dims, id)))
  /\ made' = [made EXCEPT !.args = @ + 1,
                          !.alias = IF g_comp[t] = 0 THEN @
                                    ELSE <<input, <<g_comp[t], Len(g_comps[g_comp[t]].vals) + 1>>>>]

\* ------------------------------------------------------------- convolution
\* The library's choice of formats for format_tag::any: for each of weights,
\* source and destination, whether it differs from the declared layout.
Preferences == [w : BOOLEAN, s : BOOLEAN, d : BOOLEAN]

Pick(differs) == IF differs THEN BLOCKED ELSE PLAIN

\* The weight repack of odla_Conv and odla_DeConv: run at once on a stream of
\* its own, after which the kernel Value holds the repacked memory.
ReorderWeights(h, kernel) ==
  LET w  == ReadAs(h, MemOf(h, kernel), PLAIN)
      h1 == NewMemory(h, BLOCKED, h.mems[MemOf(h, kernel)].dt)
      m  == LastMem(h1)
      h2 == [h1 EXCEPT !.bufs[h1.mems[m].h] = [lay |-> BLOCKED, val |-> w]]
  IN  [h2 EXCEPT !.comps[kernel[1]].vals[kernel[2]].mem = m]

\* An input repack that is queued while input->mem stays as it was.
ReorderInput_Unbound(h, c, input) ==
  LET h1 == NewMemory(h, BLOCKED, h.mems[MemOf(h, input)].dt)
      h2 == PushPrimitive(h1, c, "reorder", <<PLAIN>>, BLOCKED)
  IN  PushArgs(h2, c, <<MemOf(h, input)>>, LastMem(h1))

\* The input repack: queued in the plan; input->mem is the repacked memory
\* while the primitive's arguments are built, and is put back afterwards.
ReorderInput(h, c, input) ==
  LET h1 == NewMemory(h, BLOCKED, h.mems[MemOf(h, input)].dt)
      m  == LastMem(h1)
      h2 == PushPrimitive(h1, c, "reorder", <<PLAIN>>, BLOCKED)
      h3 == PushArgs(h2, c, <<MemOf(h, input)>>, m)
  IN  [h3 EXCEPT !.comps[input[1]].vals[input[2]].mem = m]

\* A destination repack that is queued while v->mem stays the primitive's
\* destination.
ReorderOutput_Unbound(h, c, v, ret_mem) ==
  LET h1 == NewMemory(h, PLAIN, h.mems[ret_mem].dt)
      h2 == PushPrimitive(h1, c, "reorder", <<BLOCKED>>, PLAIN)
  IN  PushArgs(h2, c, <<ret_mem>>, LastMem(h1))

\* The destination repack to the expected layout; v->mem = reordered_mem.
ReorderOutput(h, c, v, ret_mem) ==
  LET h1 == NewMemory(h, PLAIN, h.mems[ret_mem].dt)
      m  == LastMem(h1)
      h2 == PushPrimitive(h1, c, "reorder", <<BLOCKED>>, PLAIN)
      h3 == PushArgs(h2, c, <<ret_mem>>, m)
  IN  [h3 EXCEPT !.comps[v[1]].vals[v[2]].mem = m]

\* The body odla_Conv and odla_DeConv share.  unit: the dilations are all 1.
Convolution(h, t, algo, input, kernel, unit, bias, output_dims, id, pd) ==
  LET c == g_comp[t]
      orig_mem == MemOf(h, input)
      \* auto ret_mem = dnnl::memory(pd.dst_desc(), g_comp->eng)
      h1 == NewMemory(h, Pick(pd.d), h.mems[orig_mem].dt)
      ret_mem == LastMem(h1)
      h2 == IF pd.w THEN ReorderWeights(h1, kernel) ELSE h1
      h3 == IF pd.s THEN ReorderInput(h2, c, input) ELSE h2
      h4 == PushPrimitive(h3, c, algo, <<Pick(pd.s), Pick(pd.w)>>, Pick(pd.d))
      h5 == CreateValue(h4, c, ret_mem, output_dims, id)
      v  == LastValue(h5, c)
      h6 == PushArgs(h5, c, <<MemOf(h5, input), MemOf(h5, kernel)>>, ret_mem)
      h7 == IF pd.s THEN [h6 EXCEPT !.comps[input[1]].vals[input[2]].mem = orig_mem]
            ELSE h6
      h8 == IF pd.d THEN ReorderOutput(h7, c, v, ret_mem) ELSE h7
      h9 == InterpretIfNeeded(h8, t)
  IN  IF AssertFails(unit) THEN Fail(h, ABORT)
      ELSE IF bias = NullValue THEN Ok(h9, v)
      ELSE binary_eltwise(h9, t, "binary_add", v, bias, id)

odla_Conv(t, input, kernel, unit, bias, output_dims, id, pd) ==
  /\ Alive /\ MayLower
  /\ LoweredOn("odla_Conv", t,
            Given(input, kernel, output_dims, unit) @@ [bias |-> bias, pd |-> pd],
            LAMBDA h : OnActive(h, t, Convolution(h, t, "convolution", input, kernel, unit,
                                   bias, output_dims, id, pd)))

odla_DeConv(t, input, kernel, unit, bias, output_dims, id, pd) ==
  /\ Alive /\ MayLower
  /\ LoweredOn("odla_DeConv", t,
            Given(input, kernel, output_dims, unit) @@ [bias |-> bias, pd |-> pd],
            LAMBDA h : OnActive(h, t, Convolution(h, t, "deconvolution", input, kernel, unit,
                                   bias, output_dims, id, pd)))

\* ------------------------------------------------------------- other ops
Concat(h, t, a, b, output_dims, id) ==
  Lower(h, t, "concat", <<MemOf(h, a), MemOf(h, b)>>, <<PLAIN, PLAIN>>,
        PLAIN, PLAIN, output_dims, id, TRUE)

odla_Concat(t, a, b, output_dims, id) ==
  /\ Alive /\ MayLower
  /\ Lowered("odla_Concat", t, LAMBDA h : OnActive(h, t, Concat(h, t, a, b, output_dims, id)))

BasePool(h, t, algo, input, output_dims, id) ==
  Lower(h, t, algo, <<MemOf(h, input)>>, <<PLAIN>>, PLAIN, PLAIN, output_dims, id, TRUE)

odla_MaxPool(t, input, output_dims, id) ==
  /\ Alive /\ MayLower
  /\ Lowered("odla_MaxPool", t,
            LAMBDA h : OnActive(h, t, BasePool(h, t, "pooling_max", input, output_dims, id)))

odla_AveragePool(t, input, output_dims, id) ==
  /\ Alive /\ MayLower
  /\ Lowered("odla_AveragePool", t,
            LAMBDA h : OnActive(h, t, BasePool(h, t, "pooling_avg", input, output_dims, id)))

\* scale and offset, when both are given, are copied into weight_mem while the
\* graph is built; mean and var are the same Value here.
BatchNormalization(h, t, input, stat, ss, id) ==
  LET c  == g_comp[t]
      h1 == NewMemory(h, PLAIN, h.mems[MemOf(h, input)].dt)
      weight_mem == LastMem(h1)
      raw == h.bufs[h.mems[MemOf(h, ss)].h]
      h2 == IF ss = NullValue THEN h1
            ELSE [h1 EXCEPT !.bufs[h1.mems[weight_mem].h] =
                              [lay |-> raw.lay,
                               val |-> Term("scale_shift", <<raw.val, raw.val>>)]]
  IN  Lower(h2, t, "batch_normalization",
            <<MemOf(h, input), MemOf(h, stat), MemOf(h, stat), weight_mem>>,
            <<DescOf(h, input), PLAIN, PLAIN, PLAIN>>,
            DescOf(h, input), DescOf(h, input), Val(h, input).shape, id, TRUE)

odla_BatchNormalization(t, input, stat, ss, id) ==
  /\ Alive /\ MayLower
  /\ Lowered("odla_BatchNormalization", t,
            LAMBDA h : OnActive(h, t, BatchNormalization(h, t, input, stat, ss, id)))

\* assert(window_size & 1)
LRN(h, t, input, odd, id) ==
  IF AssertFails(odd) THEN Fail(h, ABORT)
  ELSE Lower(h, t, "lrn", <<MemOf(h, input)>>, <<DescOf(h, input)>>,
             DescOf(h, input), DescOf(h, input), Val(h, input).shape, id, TRUE)

odla_LRN(t, input, odd, id) ==
  /\ Alive /\ MayLower
  /\ Lowered("odla_LRN", t, LAMBDA h : OnActive(h, t, LRN(h, t, input, odd, id)))

Softmax(h, t, input, id) ==
  Lower(h, t, "softmax", <<MemOf(h, input)>>, <<PLAIN>>,
        DescOf(h, input), PLAIN, Val(h, input).shape, id, TRUE)

odla_Softmax(t, input, id) ==
  /\ Alive /\ MayLower
  /\ Lowered("odla_Softmax", t, LAMBDA h : OnActive(h, t, Softmax(h, t, input, id)))

\* assert(num_of_axes == 2 && dims.size == 4); assert(axes[i] == axes[i-1] + 1)
ReduceMean(h, t, input, contiguous, output_dims, id) ==
  IF AssertFails(Len(Val(h, input).shape) = 4 /\ contiguous) THEN Fail(h, ABORT)
  ELSE Lower(h, t, "pooling_avg", <<MemOf(h, input)>>, <<PLAIN>>, PLAIN, PLAIN,
             output_dims, id, TRUE)

odla_ReduceMean(t, input, contiguous, output_dims, id) ==
  /\ Alive /\ MayLower
  /\ Lowered("odla_ReduceMean", t,
            LAMBDA h : OnActive(h, t, ReduceMean(h, t, input, contiguous, output_dims, id)))

\* assert(lhs_dims.size == 2 && rhs_dims.size == 2).  The matmul is pushed with
\* its argument map; InterpretIfNeeded is reached only through odla_Add.
Gemm(h, t, lhs, rhs, bias, output_dims, id) ==
  LET r == Lower(h, t, "matmul", <<MemOf(h, lhs), MemOf(h, rhs)>>, <<PLAIN, PLAIN>>,
                 PLAIN, PLAIN, output_dims, IF bias = NullValue THEN id ELSE "", FALSE)
  IN  IF AssertFails(Len(Val(h, lhs).shape) = 2 /\ Len(Val(h, rhs).shape) = 2)
      THEN Fail(h, ABORT)
      ELSE IF bias = NullValue THEN r
      ELSE binary_eltwise(r.h, t, "binary_add", r.ret, bias, id)

odla_Gemm(t, lhs, rhs, bias, output_dims, id) ==
  /\ Alive /\ MayLower
  /\ Lowered("odla_Gemm", t, LAMBDA h : OnActive(h, t, Gemm(h, t, lhs, rhs, bias, output_dims, id)))

\* assert(strides[i] == 1)
Slice(h, t, input, unit, output_dims, id) ==
  IF AssertFails(unit) THEN Fail(h, ABORT)
  ELSE Lower(h, t, "slice", <<MemOf(h, input)>>, <<PLAIN>>, PLAIN, PLAIN,
             output_dims, id, TRUE)

odla_Slice(t, input, unit, output_dims, id) ==
  /\ Alive /\ MayLower
  /\ Lowered("odla_Slice", t, LAMBDA h : OnActive(h, t, Slice(h, t, input, unit, output_dims, id)))

\* ------------------------------------------------------------- Next
UserBufs == 1..NumUserBufs
Comps == 1..Len(g_comps)
\* The Values of the computation active on the caller's thread, and those or none.
Values == ActiveValues(MainThread)
OrNull(S) == S \cup {NullValue}
\* The Values a caller hands to a convolution: input and kernel are 4-D.
Values4D == { hd \in Values : Len(Val(Heap, hd).shape) = 4 }
\* The shape the caller gives the Values of a graph it binds and runs.
NCHW == <<1, 1, 1, 2>>

\* Graph construction: arguments and constants of either shape and every
\* lowering call.
NextLower ==
  \/ odla_CreateComputation(MainThread)
  \/ \E shape \in Shapes, id \in ArgIds : odla_CreateArgument(MainThread, Float32(shape), id)
  \/ \E shape \in Shapes, ptr \in UserBufs, id \in ArgIds :
       odla_CreateConstant(MainThread, Float32(shape), ptr, id)
  \/ \E a, b \in Values, id \in OpIds :
       odla_Add(MainThread, a, b, id)
  \/ \E a, b \in Values, id \in OpIds :
       odla_Mul(MainThread, a, b, id)
  \/ \E a \in Values, id \in OpIds :
       odla_Sigmoid(MainThread, a, id)
  \/ \E a \in Values, id \in OpIds :
       odla_LeakyRelu(MainThread, a, id)
  \/ \E a \in Values, id \in OpIds :
       odla_Relu(MainThread, a, id)
  \/ \E a \in Values, id \in OpIds :
       odla_Clamp(MainThread, a, id)
  \/ \E a \in Values, id \in OpIds :
       odla_Softmax(MainThread, a, id)
  \/ \E a \in Values, id \in OpIds, odd \in BOOLEAN :
       odla_LRN(MainThread, a, odd, id)
  \/ \E a, b \in Values, id \in OpIds, affine \in BOOLEAN :
       odla_BatchNormalization(MainThread, a, b, IF affine THEN b ELSE NullValue, id)
  \/ \E a \in Values, id \in OpIds, dims \in Shapes :
       odla_Transpose(MainThread, a, dims, id)
  \/ \E a \in Values, id \in OpIds, dims \in Shapes :
       odla_Reshape(MainThread, a, dims, id)
  \/ \E a, b \in Values, id \in OpIds, dims \in Shapes :
       odla_Concat(MainThread, a, b, dims, id)
  \/ \E a \in Values, id \in OpIds, dims \in Shapes :
       odla_MaxPool(MainThread, a, dims, id)
  \/ \E a \in Values, id \in OpIds, dims \in Shapes :
       odla_AveragePool(MainThread, a, dims, id)
  \/ \E a \in Values, id \in OpIds, contiguous \in BOOLEAN, dims \in Shapes :
       odla_ReduceMean(MainThread, a, contiguous, dims, id)
  \/ \E a \in Values, id \in OpIds, unit \in BOOLEAN, dims \in Shapes :
       odla_Slice(MainThread, a, unit, dims, id)
  \/ \E a, b \in Values, id \in OpIds, bias \in OrNull(Values), dims \in Shapes :
       odla_Gemm(MainThread, a, b, bias, dims, id)
  \/ \E a, b \in Values4D, id \in OpIds, unit \in BOOLEAN, bias \in OrNull(Values),
          dims \in Shapes, pd \in Preferences :
       odla_Conv(MainThread, a, b, unit, bias, dims, id, pd)
  \/ \E a, b \in Values4D, id \in OpIds, unit \in BOOLEAN, bias \in OrNull(Values),
          dims \in Shapes, pd \in Preferences :
       odla_DeConv(MainThread, a, b, unit, bias, dims, id, pd)

\* Binding: arguments and constants of one shape and their reshapes,
\* contexts, the output table and the four bind calls.
NextBind ==
  \/ odla_CreateComputation(MainThread)
  \/ \E id \in ArgIds : odla_CreateArgument(MainThread, Float32(NCHW), id)
  \/ \E ptr \in UserBufs, id \in ArgIds : odla_CreateConstant(MainThread, Float32(NCHW), ptr, id)
  \/ \E a \in Values, id \in OpIds : odla_Reshape(MainThread, a, NCHW, id)
  \/ odla_CreateContext(MainThread)
  \/ \E hd \in Values, st \in Statuses : odla_SetValueAsOutput(MainThread, hd, st)
  \/ \E hd \in Values, ptr \in UserBufs, x \in LiveCtxs : odla_BindToArgument(hd, ptr, x)
  \/ \E hd \in Values, ptr \in UserBufs, x \in LiveCtxs : odla_BindToOutput(hd, ptr, x)
  \/ \E name \in Names, ptr \in UserBufs, x \in LiveCtxs :
       odla_BindToArgumentById(name, ptr, x)
  \/ \E name \in Names, ptr \in UserBufs, x \in LiveCtxs :
       odla_BindToOutputById(name, ptr, x)

\* Running: a convolution over arguments of one shape, built, bound and
\* executed.
NextRun ==
  \/ odla_CreateComputation(MainThread)
  \/ \E id \in ArgIds : odla_CreateArgument(MainThread, Float32(NCHW), id)
  \/ \E a, b \in Values4D, id \in OpIds, pd \in Preferences :
       a[2] < b[2] /\ odla_Conv(MainThread, a, b, TRUE, NullValue, NCHW, id, pd)
  \/ odla_CreateContext(MainThread)
  \/ \E hd \in Values, ptr \in UserBufs, x \in LiveCtxs : odla_BindToArgument(hd, ptr, x)
  \/ \E hd \in Values, ptr \in UserBufs, x \in LiveCtxs : odla_BindToOutput(hd, ptr, x)
  \/ \E c \in Comps, x \in LiveCtxs : odla_ExecuteComputation(c, x)

\* The lifecycle calls, over a graph of one elementwise operation.
NextLife ==
  \/ odla_CreateComputation(MainThread)
  \/ \E c \in Comps \cup {0} : odla_SetActiveComputation(MainThread, c)
  \/ \E c \in Comps : odla_DestroyComputation(c)
  \/ odla_CreateContext(MainThread)
  \/ \E x \in LiveCtxs : odla_DestroyContext(x)
  \/ \E c \in Comps, x \in LiveCtxs : odla_ExecuteComputation(c, x)
  \/ \E id \in ArgIds : odla_CreateArgument(MainThread, Float32(NCHW), id)
  \/ \E a \in Values, id \in OpIds : odla_Sigmoid(MainThread, a, id)

\* A shape of every rank up to MaxRank; the one of rank 4 is NCHW.
RankShapes == { [i \in 1..r |-> IF i = r THEN 2 ELSE 1] : r \in 1..MaxRank }

\* The calls an interpreter makes: Values are created, the first of any
\* rank, given data, combined and read back.
NextData ==
  \/ odla_CreateComputation(MainThread)
  \/ \E shape \in RankShapes, id \in ArgIds :
       (made.args = 0 \/ shape = NCHW) /\ odla_CreateValue(MainThread, Float32(shape), id)
  \/ \E a \in Values, id \in OpIds : odla_Sigmoid(MainThread, a, id)
  \/ \E hd \in Values : odla_GetValueType(hd)
  \/ \E hd \in Values, ptr \in UserBufs : odla_SetValueData(MainThread, hd, ptr)
  \/ \E hd \in Values, ptr \in UserBufs, st \in Statuses :
       odla_GetValueData(MainThread, hd, ptr, st)

\* Two threads, each building graphs of its own: the main thread from
\* arguments, the other from constants.
NextThreads ==
  \/ \E t \in Threads : odla_CreateComputation(t)
  \/ \E t \in Threads, c \in Comps : odla_SetActiveComputation(t, c)
  \/ \E id \in ArgIds : odla_CreateArgument(MainThread, Float32(NCHW), id)
  \/ \E t \in Threads \ {MainThread}, id \in ArgIds : odla_CreateConstant(t, Float32(NCHW), t, id)
  \/ \E t \in Threads, id \in OpIds : \E a \in ActiveValues(t) : odla_Sigmoid(t, a, id)
  \/ \E t \in Threads, st \in Statuses : \E hd \in ActiveValues(t) :
       odla_SetValueAsOutput(t, hd, st)

\* Two threads create a Computation each at the same time, and then build.
NextRace ==
  \/ \E t \in Threads : push_back_Begin(t)
  \/ \E t \in Threads : push_back_Store(t)
  \/ \E t \in Threads : odla_CreateComputation_Return(t)
  \/ \E t \in Threads, id \in ArgIds :
       race.pc[t] = "done" /\ odla_CreateArgument(t, Float32(NCHW), id)
  \/ \E t \in Threads, id \in OpIds : \E a \in ActiveValues(t) :
       race.pc[t] = "done" /\ odla_Sigmoid(t, a, id)

\* The engine takes every operand as the caller laid it out.
AsGiven == [w |-> FALSE, s |-> FALSE, d |-> FALSE]

\* One graph, a convolution with its input added as bias, over constants in
\* the caller's buffers; its output is bound, and then two contexts run it
\* at once.
NextConc ==
  \/ odla_CreateComputation(MainThread)
  \/ \E ptr \in UserBufs, id \in ArgIds :
       made.runs = 0 /\ odla_CreateConstant(MainThread, Float32(NCHW), ptr, id)
  \/ \E a, b \in Values4D, id \in OpIds :
       /\ made.runs = 0 /\ a[2] < b[2]
       /\ odla_Conv(MainThread, a, b, TRUE, a, NCHW, id, AsGiven)
  \/ odla_CreateContext(MainThread)
  \/ \E hd \in Values, ptr \in UserBufs, x \in LiveCtxs :
       /\ made.runs = 0 /\ ~Val(Heap, hd).is_const
       /\ odla_BindToOutput(hd, ptr, x)
  \/ \E c \in Comps, x \in LiveCtxs : odla_ExecuteComputation_Begin(c, x)
  \/ \E x \in LiveCtxs : odla_ExecuteComputation_Step(x)
  \/ \E x \in LiveCtxs : odla_ExecuteComputation_Return(x)

\* Arguments and constants of every element type are created and their
\* types queried (the other callers create float32 Values only).
NextTypes ==
  \/ odla_CreateComputation(MainThread)
  \/ \E et \in ElementTypes, shape \in Shapes, id \in ArgIds :
       odla_CreateArgument(MainThread, ValueType(et, shape), id)
  \/ \E et \in ElementTypes, shape \in Shapes, ptr \in UserBufs, id \in ArgIds :
       odla_CreateConstant(MainThread, ValueType(et, shape), ptr, id)
  \/ \E hd \in Values : odla_GetValueType(hd)

\* The element-level functions applied to the tensors drawn.
NextProbe ==
  \/ binary_eltwise_View
  \/ odla_Transpose_Executed
  \/ odla_Softmax_Executed
  \/ odla_Concat_Executed
  \/ Constant_Constructed
  \/ GetTotalElements_Returned

Next ==
  \/ driver = "probe" /\ NextProbe
  \/ driver = "threads" /\ NextThreads
  \/ driver = "conc" /\ NextConc
  \/ driver = "race" /\ NextRace
  \/ driver = "lower" /\ NextLower
  \/ driver = "bind" /\ NextBind
  \/ driver = "run" /\ NextRun
  \/ driver = "life" /\ NextLife
  \/ driver = "data" /\ NextData
  \/ driver = "types" /\ NextTypes

Spec == Init /\ [][Next]_vars

InitLower == Init /\ driver = "lower"
SpecLower == InitLower /\ [][NextLower]_vars

InitBind == Init /\ driver = "bind"
SpecBind == InitBind /\ [][NextBind]_vars

InitRun == Init /\ driver = "run"
SpecRun == InitRun /\ [][NextRun]_vars

InitLife == Init /\ driver = "life"
SpecLife == InitLife /\ [][NextLife]_vars

InitData == Init /\ driver = "data"
SpecData == InitData /\ [][NextData]_vars

InitRace == Init /\ driver = "race"
SpecRace == InitRace /\ [][NextRace]_vars

InitConc == Init /\ driver = "conc"
SpecConc == InitConc /\ [][NextConc]_vars

InitProbe == Init /\ driver = "probe"
SpecProbe == InitProbe /\ [][NextProbe]_vars

InitThreads == Init /\ driver = "threads"
SpecThreads == InitThreads /\ [][NextThreads]_vars

InitTypes == Init /\ driver = "types"
SpecTypes == InitTypes /\ [][NextTypes]_vars
\* ------------------------------------------------------------- properties
\* The lowering functions that append plan entries.
PlanOps ==
  {"odla_Add", "odla_Mul", "odla_Sigmoid", "odla_Relu", "odla_LeakyRelu",
   "odla_Clamp", "odla_Conv", "odla_DeConv", "odla_MaxPool", "odla_AveragePool",
   "odla_BatchNormalization", "odla_LRN", "odla_Softmax", "odla_ReduceMean",
   "odla_Gemm", "odla_Concat", "odla_Slice", "odla_Transpose"}

\* The plan of computation c pairs its i-th primitive with the argument map
\* that was appended with it.
Paired(c) ==
  /\ Len(c.primitives) = Len(c.args)
  /\ \A i \in 1..Len(c.primitives) : c.primitives[i].tag = c.args[i].tag

\* C2: after every public operation the primitive sequence and the
\* argument-map sequence of every Computation have the same length, and the
\* i-th argument map is the one appended together with the i-th primitive.
C2_PlanPaired == \A c \in 1..Len(g_comps) : Paired(g_comps[c])

\* C2's case: a plan of several entries (a convolution with its repacks) has
\* been built and is paired; and an immediate-mode drain has emptied a plan.
C2_Witness ==
  \/ /\ call.op = "odla_Conv" /\ call.status = RETURNED
     /\ Len(g_comps[call.comp].primitives) >= 3
     /\ Paired(g_comps[call.comp])
  \/ /\ call.op = "odla_Conv" /\ call.status = RETURNED /\ build.interpreter
     /\ Len(ran) >= 3 /\ g_comps[call.comp].args = <<>>

\* C3: in immediate mode, when a lowering call that appends plan entries
\* returns, every entry it appended has been executed and the plan of the
\* active Computation is empty.
C3_ImmediateDrained ==
  (/\ build.interpreter /\ g_interpret_mode[MainThread]
   /\ call.op \in PlanOps /\ call.status = RETURNED)
  => LET c == g_comps[call.comp] IN
       /\ c.primitives = <<>> /\ c.args = <<>>
       /\ \A tag \in (call.first + 1)..c.nent : \E i \in 1..Len(ran) : ran[i] = tag

\* C4: a lowering call that signals an error leaves the plan and the Value
\* registry of every Computation exactly as they were before the call began.
C4_LoweringAtomic ==
  [][(call'.op \in PlanOps /\ call'.status \in {ABORT, THROW}) => g_comps' = g_comps]_vars

\* The tags of the plan entries of computation c, in the order they were appended.
PlanTags(c) == [i \in 1..Len(c.primitives) |-> c.primitives[i].tag]

\* C1: in a compiled build one Execute call runs every plan entry exactly
\* once, in the order the entries were appended, and returns only after the
\* stream wait has completed.
C1_ExecuteReplaysInOrder ==
  (~build.interpreter /\ call.op = "odla_ExecuteComputation")
  => /\ ran = PlanTags(g_comps[call.comp])
     /\ \A i, j \in 1..Len(ran) : i < j => ran[i] < ran[j]
     /\ ctxs[call.ctx].stream /\ ctxs[call.ctx].pending = 0

\* C1's case: Execute has returned from a plan of three entries (input repack,
\* convolution, destination repack).
C1_Witness ==
  /\ ~build.interpreter /\ call.op = "odla_ExecuteComputation"
  /\ Len(g_comps[call.comp].primitives) = 3
  /\ Len(ran) = 3

\* The plan entries of computation c that read a caller's buffer do so through
\* the layout the bytes of that buffer are in.
ReadsAsExpected(c) ==
  \A i \in 1..Len(c.primitives) : \A j \in 1..Len(c.args[i].src) :
    LET b == mems[c.args[i].src[j]].h
    IN  b \in UserBufs => bufs[b].lay = c.primitives[i].src[j]

\* C6: when a compiled Computation that was executed with buffers bound is
\* rebound and executed again, every plan entry that consumes an argument
\* reads the newly bound buffer in the format the entry expects, whatever the
\* argument is used as.
C6_RebindReadsNewBuffers ==
  (/\ ~build.interpreter /\ call.op = "odla_ExecuteComputation"
   /\ made.runs = 2 /\ made.fed = 2 /\ g_comps[call.comp].primitives # <<>>)
  => ReadsAsExpected(g_comps[call.comp])

\* C7: bind-output on a constant Value copies the Value's bytes into the
\* caller's buffer and leaves the Value's buffer pointer and contents as they
\* were; on any other Value it repoints the Value's buffer to the caller's
\* pointer and copies nothing.
C7_BindToOutput ==
  [][(call'.op \in {"odla_BindToOutput", "odla_BindToOutputById"}
      /\ call'.status = ODLA_SUCCESS)
     => LET v == Val(Heap, call'.v)
            p == call'.ptr
        IN  IF v.is_const
            THEN /\ bufs'[p] = bufs[mems[v.mem].h]
                 /\ mems' = mems
                 /\ bufs'[mems[v.mem].h] = bufs[mems[v.mem].h]
                 /\ \A b \in DOMAIN bufs : b # p => bufs'[b] = bufs[b]
            ELSE /\ mems'[v.mem].h = p
                 /\ \A m \in DOMAIN mems : m # v.mem => mems'[m] = mems[m]
                 /\ bufs' = bufs]_vars

\* C7's case: a constant was bound as output to a buffer other than its own,
\* which now holds the constant's bytes, while the constant still points at
\* its own buffer.
C7_Witness ==
  /\ call.op = "odla_BindToOutput" /\ call.status = ODLA_SUCCESS
  /\ Val(Heap, call.v).is_const
  /\ mems[Val(Heap, call.v).mem].h # call.ptr
  /\ bufs[call.ptr] = bufs[mems[Val(Heap, call.v).mem].h]
  /\ bufs[call.ptr].val # UserData(call.ptr)

\* C8: a bind by name whose name is no key of the table of the Context's
\* Computation returns a failure status, dereferences no missing Value and
\* binds the caller's pointer to no Value.
C8_AbsentNameFails ==
  [][\A pair \in {<<"odla_BindToArgumentById", "inputs">>,
                  <<"odla_BindToOutputById", "outputs">>} :
       (/\ call'.op = pair[1]
        /\ ctxs[call'.ctx].comp # 0
        /\ ~MapHas(g_comps[ctxs[call'.ctx].comp][pair[2]], call'.name))
       => /\ call'.status = ODLA_FAILURE
          /\ mems' = mems /\ bufs' = bufs]_vars

\* The functions declared to return odla_status.
StatusOps ==
  {"odla_CreateComputation", "odla_SetActiveComputation", "odla_DestroyComputation",
   "odla_CreateContext", "odla_DestroyContext", "odla_ExecuteComputation",
   "odla_BindToArgument", "odla_BindToArgumentById", "odla_BindToOutput",
   "odla_BindToOutputById", "odla_GetValueType", "odla_GetValueData",
   "odla_SetValueAsOutput", "odla_SetValueData"}

\* C9: every function declared to return a status returns the success status
\* on every path on which it returns.
C9_AlwaysSuccess ==
  (call.op \in StatusOps /\ call.status \in Statuses) => call.status = ODLA_SUCCESS

\* C10: after destroy-computation the Value arena and the plan of the
\* Computation are both released.
C10_DestroyReleases ==
  call.op = "odla_DestroyComputation"
  => /\ g_comps[call.comp].vals = <<>>
     /\ g_comps[call.comp].primitives = <<>>
     /\ g_comps[call.comp].args = <<>>

\* The bytes Value hd holds in heap h.
Content(h, hd) == h.bufs[h.mems[Val(h, hd).mem].h].val

\* The compiled build's heap after odla_CreateContext and one
\* odla_ExecuteComputation of computation c.
TwinExecuted(c) ==
  ExecuteComputation([twin EXCEPT !.ctxs = <<[NewContext EXCEPT !.comp = c]>>], c, 1)

\* Every Value made by a creation call holds the caller's data.
InputsDefined(c) ==
  \A i \in 1..Len(g_comps[c].vals) :
    (g_comps[c].vals[i].is_const \/ MapHas(g_comps[c].inputs, g_comps[c].vals[i].name))
    => Defined(Content(Heap, <<c, i>>))

\* C5: the contents of every Value read in immediate mode right after a
\* sequence of lowering calls equal the contents read in a compiled build
\* after the same calls on the same input data and one Execute.
C5_ModesAgree ==
  (/\ build.interpreter /\ g_interpret_mode[MainThread]
   /\ call.op \in PlanOps /\ call.status = RETURNED
   /\ InputsDefined(call.comp))
  => \A i \in 1..Len(g_comps[call.comp].vals) :
       Content(Heap, <<call.comp, i>>) = Content(TwinExecuted(call.comp), <<call.comp, i>>)

\* C11: a thread's active Computation is the one it created or set active
\* last, and a create-argument, create-constant, lowering or mark-as-output
\* call of a thread changes the plan, Value registry and named tables of that
\* thread's active Computation only.
C11_Ops ==
  {"odla_CreateArgument", "odla_CreateConstant", "odla_Sigmoid",
   "odla_SetValueAsOutput"}

C12_Ops ==
  {"odla_CreateComputation", "odla_SetActiveComputation", "odla_DestroyComputation",
   "odla_CreateContext", "odla_DestroyContext"}

C12_RegistryKept ==
  [][/\ Len(g_comps') >= Len(g_comps)
     /\ call'.op \in C12_Ops => \A c \in Comps : g_comps'[c] = g_comps[c]]_vars

\* A Computation with Values and a plan was destroyed, another was created
\* after it, and both are registered.
C12_Witness ==
  /\ call.op = "odla_DestroyComputation"
  /\ Len(g_comps) = MaxGraphs
  /\ \E c \in Comps : c < Len(g_comps) /\ g_comps[c].vals # <<>>

\* C13: when two threads have created a Computation each at the same time,
\* both Computations are in the registry, the two handles differ and each
\* thread's active Computation is the one it made.
C13_ConcurrentCreate ==
  (call.status # CRASH /\ \A t \in Threads : race.pc[t] = "done") =>
     /\ \A t \in Threads : \E i \in 1..Len(race.reg) : race.reg[i] = race.obj[t]
     /\ g_comp[1] # g_comp[2]
     /\ \A t \in Threads : g_comp[t] = race.obj[t]

\* C14: nothing in Execute excludes a second run of the same Computation
\* through another context while one is in progress, and there is an
\* interleaving of two such runs in which a plan entry of one run reads an
\* engine-allocated buffer the other run has written and that run returns
\* an output it returns under neither serial order of the two runs.
C14_NothingExcludes ==
  \A x, y \in LiveCtxs :
    (Alive /\ x \in Running /\ y \notin Running /\ made.runs < MaxRuns) =>
      ENABLED odla_ExecuteComputation_Begin(ctxs[x].run, y)

\* The caller's buffers after one and after two runs of Computation c, one
\* after the other, from the buffers in conc.start.
SerialOutputs(c) ==
  LET once  == Replay([Heap EXCEPT !.bufs = conc.start], c)
      twice == Replay([once EXCEPT !.ran = <<>>], c)
  IN  { SubSeq(once.bufs, 1, NumUserBufs), SubSeq(twice.bufs, 1, NumUserBufs) }

C14_Witness ==
  /\ Running = {} /\ made.runs = 2
  /\ \E x \in conc.mixed :
       /\ \A y \in LiveCtxs : ctxs[y].run = ctxs[x].run
       /\ conc.out[x] \notin SerialOutputs(ctxs[x].run)

\* C15: a Value's shape is the one given when it was created, whatever its
\* rank: the creating call registers the Value with the shape it was given,
\* the type query returns the registered shape, and no call changes the
\* shape of a Value that exists.
C15_Creators == {"odla_CreateArgument", "odla_CreateValue", "odla_CreateConstant"}

C15_ShapeFixed ==
  [][/\ \A hd \in ValueHandles(g_comps) :
          /\ hd \in ValueHandles(g_comps')
          /\ g_comps'[hd[1]].vals[hd[2]].shape = Val(Heap, hd).shape
     /\ (call' # call /\ call'.op \in C15_Creators /\ call'.status = RETURNED) =>
          /\ call'.ret \notin ValueHandles(g_comps)
          /\ g_comps'[call'.ret[1]].vals[call'.ret[2]].shape = call'.shape
     /\ call'.op = "odla_GetValueType" =>
          /\ call'.status = ODLA_SUCCESS
          /\ call'.shape = Val(Heap, call'.v).shape]_vars

\* A Value of the largest rank was created, used by a lowering call and given
\* data, and its type has just been queried.
C15_Witness ==
  /\ call.op = "odla_GetValueType"
  /\ call.shape \in RankShapes /\ Len(call.shape) = MaxRank
  /\ made.ops > 0 /\ made.binds > 0

\* C16: when the left operand of add or multiply has d > 0 dimensions more
\* than the right, the right operand's view has stride 0 on the first d
\* dimensions and the right operand's row-major strides on the others; for
\* [2,3,4] and [4], element (i,j,k) of the view is element k of the right
\* operand.
C16_BroadcastView ==
  (probe.fn = "binary_eltwise" /\ probe.stage = 1) =>
    LET d == Len(probe.dims) - Len(probe.rhs) IN
    /\ Len(probe.strides) = Len(probe.dims)
    /\ \A i \in 1..d : probe.strides[i] = 0
    /\ \A i \in 1..Len(probe.rhs) : probe.strides[d + i] = Product(probe.rhs, i + 1)
    /\ (probe.dims = <<2, 3, 4>> /\ probe.rhs = <<4>>) =>
         \A i \in 0..1, j \in 0..2, k \in 0..3 :
           Offset(<<i, j, k>>, probe.strides) = k

C16_Witness ==
  /\ probe.fn = "binary_eltwise" /\ probe.stage = 1
  /\ probe.dims = <<2, 3, 4>> /\ probe.rhs = <<4>>

\* C17: an add or multiply of operands of different rank whose right
\* operand's element count does not divide the left operand's (or exceeds it)
\* signals an error and appends no plan entry.
C17_IndivisibleFails ==
  [][(/\ call' # call
      /\ call'.op \in {"odla_Add", "odla_Mul"}
      /\ g_comp[call'.t] # 0
      /\ LET dl == Val(Heap, call'.v).shape
             dr == Val(Heap, call'.w).shape
             ln == GetTotalElements(dl)
             rn == GetTotalElements(dr)
         IN  Len(dl) # Len(dr) /\ ~(ln >= rn /\ ln % rn = 0))
     => /\ call'.status # RETURNED
        /\ \A c \in Comps : g_comps'[c].primitives = g_comps[c].primitives]_vars

\* C18: transposing a tensor by a permutation of its dimensions and the
\* result by the inverse permutation gives, once both reorders have been
\* executed, the elements of the input in their original order.
C18_TransposeRoundTrip ==
  (probe.fn = "odla_Transpose" /\ probe.stage = 2) =>
    probe.data = [k \in 1..GetTotalElements(probe.dims) |-> k]

\* A round trip through a permutation that is not its own inverse, on a
\* tensor whose dimensions all differ.
C18_Witness ==
  /\ probe.fn = "odla_Transpose" /\ probe.stage = 2
  /\ probe.dims = <<2, 3, 4>> /\ probe.perm = <<2, 3, 1>>

\* C19: Reshape appends no plan entry, leaves its input Value as it was and
\* returns a new Value with the requested shape on the input's memory; from
\* then on the bytes behind the two Values are the same bytes.
C19_ReshapeAliases ==
  [][/\ (call' # call /\ call'.op = "odla_Reshape" /\ call'.status = RETURNED) =>
          LET x == call'.v
              y == call'.ret
          IN  /\ \A c \in Comps : /\ g_comps'[c].primitives = g_comps[c].primitives
                                   /\ g_comps'[c].args = g_comps[c].args
              /\ g_comps'[x[1]].vals[x[2]] = Val(Heap, x)
              /\ y \notin ValueHandles(g_comps)
              /\ g_comps'[y[1]].vals[y[2]].shape = call'.shape
              /\ g_comps'[y[1]].vals[y[2]].mem = Val(Heap, x).mem
     /\ made'.alias # <<>> =>
          LET x == g_comps'[made'.alias[1][1]].vals[made'.alias[1][2]]
              y == g_comps'[made'.alias[2][1]].vals[made'.alias[2][2]]
          IN  bufs'[mems'[x.mem].h] = bufs'[mems'[y.mem].h]]_vars

\* C20: a convolution or deconvolution called with a dilation other than 1
\* signals an error, appends no plan entry, adds no Value and does not
\* repack the kernel.
C20_DilationRejected ==
  [][(/\ call' # call
      /\ call'.op \in {"odla_Conv", "odla_DeConv"}
      /\ ~call'.unit
      /\ g_comp[call'.t] # 0)
     => /\ call'.status # RETURNED
        /\ g_comps' = g_comps
        /\ mems' = mems /\ bufs' = bufs]_vars

\* C21: Softmax given a negative axis normalises over the last dimension,
\* whatever the negative value is; a non-negative axis is used unchanged.
\* (The elements normalised with element k begin k's index along that
\* dimension times the dimension's stride before k.)
C21_SoftmaxAxis ==
  (probe.fn = "odla_Softmax" /\ probe.stage = 1) =>
    LET rank == Len(probe.dims)
        over == IF probe.axis < 0 THEN rank ELSE probe.axis + 1
    IN  /\ probe.eff = over - 1
        /\ Len(probe.out) = Product(probe.dims, 1)
        /\ \A k \in DOMAIN probe.out :
             probe.out[k] = k - Unravel(k - 1, probe.dims)[over] * Product(probe.dims, over + 1)

\* A tensor of three different dimensions was normalised with axis -2: the
\* elements normalised together are those along the last dimension, 5..8
\* with 7.
C21_Witness ==
  /\ probe.fn = "odla_Softmax" /\ probe.stage = 1
  /\ probe.dims = <<2, 3, 4>> /\ probe.axis = -2
  /\ \A k \in 5..8 : probe.out[k] = 5
  /\ probe.out[4] = 1 /\ probe.out[9] = 9

\* C22: Concatenate resolves a negative axis a, -rank <= a < 0, to rank + a,
\* so that the axis used lies in 0..rank-1, and binds the i-th source slot to
\* the i-th input: the output holds the first input's slices along the axis
\* and then the second's; [2,3] and [3,3] on axis 0 give the 15 elements of
\* [5,3] with the first input's rows first.
C22_ConcatInOrder ==
  (probe.fn = "odla_Concat" /\ probe.stage = 1) =>
    LET rank == Len(probe.dims)
        n1   == GetTotalElements(probe.dims)
        n2   == GetTotalElements(probe.rhs)
        ax   == probe.eff + 1
        od   == [probe.dims EXCEPT ![ax] = @ + probe.rhs[ax]]
        At(idx) == 1 + Offset(idx, getStrides(od))
    IN  /\ probe.eff = (IF probe.axis < 0 THEN rank + probe.axis ELSE probe.axis)
        /\ probe.eff \in 0..(rank - 1)
        /\ Len(probe.out) = n1 + n2
        /\ \A k \in 1..n1 :
             probe.out[At(Unravel(k - 1, probe.dims))] = probe.data[k]
        /\ \A k \in 1..n2 :
             probe.out[At([Unravel(k - 1, probe.rhs) EXCEPT ![ax] = @ + probe.dims[ax]])]
               = probe.data[n1 + k]
        /\ (probe.dims = <<2, 3>> /\ probe.rhs = <<3, 3>> /\ probe.eff = 0) =>
             probe.out = [k \in 1..15 |-> k]

\* [2,3] and [3,3] were concatenated with axis -2, and [2,3] and [2,2] with
\* axis 1, where the rows of the two inputs alternate in the output.
C22_Witness ==
  \/ /\ probe.fn = "odla_Concat" /\ probe.stage = 1
     /\ probe.dims = <<2, 3>> /\ probe.rhs = <<3, 3>> /\ probe.axis = -2
     /\ probe.out = [k \in 1..15 |-> k]
  \/ /\ probe.fn = "odla_Concat" /\ probe.stage = 1
     /\ probe.dims = <<2, 3>> /\ probe.rhs = <<2, 2>> /\ probe.axis = 1
     /\ probe.out = <<1, 2, 3, 7, 8, 4, 5, 6, 9, 10>>

\* C23: a Constant constructed with splatting has every element of its data
\* buffer equal to the first bytes-per-element bytes of the source; one
\* constructed without splatting has a data buffer equal to the first
\* Bytes(type) bytes of the source.
C23_ConstantData ==
  (probe.fn = "Constant" /\ probe.stage = 1) =>
    LET bytes == probe.dims[1] * probe.bpe IN
    /\ probe.ok
    /\ Len(probe.out) = bytes
    /\ IF probe.splat
       THEN \A j \in 0..(probe.dims[1] - 1) : \A b \in 1..probe.bpe :
              probe.out[j * probe.bpe + b] = probe.data[b]
       ELSE probe.out = SubSeq(probe.data, 1, bytes)

\* C24: a convolution or deconvolution call appends its plan entries in this
\* order: the input repack (only when the preferred source format differs)
\* right before the primitive, the primitive, which then reads the repacked
\* input, the destination repack (only when the native destination format
\* differs), the bias add (only when a bias is given); the weight repack
\* has run when the call returns (the primitive's weights are the kernel's
\* data, repacked) and appends no entry.  In immediate mode the entries are
\* executed in that order.
C24_ConvEntryOrder ==
  [][(/\ call' # call
      /\ call'.op \in {"odla_Conv", "odla_DeConv"}
      /\ call'.status = RETURNED)
     => LET c    == call'.comp
            pd   == call'.pd
            old  == g_comps[c].primitives
            new  == g_comps'[c].primitives
            args == g_comps'[c].args
            n    == Len(old)
            want == (IF pd.s THEN <<"reorder">> ELSE <<>>)
                    \o <<IF call'.op = "odla_Conv" THEN "convolution" ELSE "deconvolution">>
                    \o (IF pd.d THEN <<"reorder">> ELSE <<>>)
                    \o (IF call'.bias # NullValue THEN <<"binary_add">> ELSE <<>>)
            p    == n + (IF pd.s THEN 2 ELSE 1)
        IN  IF build.interpreter
            THEN /\ new = <<>>
                 /\ ran' = [i \in 1..Len(want) |-> call'.first + i]
            ELSE /\ Len(new) = n + Len(want) /\ Len(args) = Len(new)
                 /\ SubSeq(new, 1, n) = old
                 /\ \A i \in 1..Len(want) : new[n + i].kind = want[i]
                 /\ pd.s => args[p].src[1] = args[n + 1].dst
                 /\ pd.d => args[p + 1].src = <<args[p].dst>>
                 /\ (pd.w /\ call'.w # call'.v) =>
                             /\ args[p].src[2] # Val(Heap, call'.w).mem
                             /\ bufs'[mems'[args[p].src[2]].h].lay = BLOCKED
                             /\ bufs'[mems'[args[p].src[2]].h].val =
                                  ReadAs(Heap, Val(Heap, call'.w).mem, PLAIN)]_vars

\* A convolution of an argument with a constant kernel and a bias, whose
\* weights, source and destination formats all differ from the declared
\* ones, has returned in a compiled build: four entries were appended and
\* the kernel's data is already repacked.
C24_Witness ==
  /\ ~build.interpreter
  /\ call.op = "odla_Conv" /\ call.status = RETURNED
  /\ call.bias # NullValue /\ call.pd = [w |-> TRUE, s |-> TRUE, d |-> TRUE]
  /\ call.v # call.w /\ ~Val(Heap, call.v).is_const /\ Val(Heap, call.w).is_const
  /\ Len(g_comps[call.comp].primitives) = 4
  /\ Defined(bufs[mems[g_comps[call.comp].args[2].src[2]].h].val)

\* The product of dims, exact, as six digits of base 2^16 from the lowest.
ExactProduct(dims) ==
  LET RECURSIVE TimesDigits(_, _, _, _)
      TimesDigits(x, d, i, carry) ==
        IF i > Len(x) THEN <<>>
        ELSE LET p == x[i] * d + carry
             IN  <<p % 65536>> \o TimesDigits(x, d, i + 1, p \div 65536)
      RECURSIVE Upto(_)
      Upto(i) == IF i = 0 THEN <<1, 0, 0, 0, 0, 0>>
                 ELSE TimesDigits(Upto(i - 1), dims[i], 1, 0)
  IN  Upto(Len(dims))

\* C25: totalElements(shape) returns the exact product of the dimensions for
\* every shape of rank 0..6 whose product fits in a signed 64-bit integer,
\* products of 2^31 or more included; rank 0 gives 1.
C25_TotalElementsExact ==
  (probe.fn = "GetTotalElements" /\ probe.stage = 1) =>
    LET x == ExactProduct(probe.dims) IN
    (x[5] = 0 /\ x[6] = 0 /\ x[4] < 32768) =>
      /\ probe.n >= 0
      /\ x = <<probe.n % 65536, probe.n \div 65536, 0, 0, 0, 0>>

\* C26: when a convolution or deconvolution call returns, every Value that
\* existed before the call (input, kernel, bias) has the backing buffer and
\* the format it had before the call.
C26_OperandsRestored ==
  [][(/\ call' # call
      /\ call'.op \in {"odla_Conv", "odla_DeConv"}
      /\ call'.status = RETURNED)
     => \A hd \in ValueHandles(g_comps) :
          LET before == mems[Val(Heap, hd).mem]
              after  == mems'[g_comps'[hd[1]].vals[hd[2]].mem]
          IN  after.h = before.h /\ after.fmt = before.fmt]_vars

\* C27: for an add or multiply of operands of different rank whose element
\* counts pass the divisibility check, every offset addressed through the
\* right operand's broadcast view, over all index tuples of the left shape,
\* lies inside the right operand's buffer.
C27_ViewInBounds ==
  (probe.fn = "binary_eltwise" /\ probe.stage = 1) =>
    \A k \in 0..(GetTotalElements(probe.dims) - 1) :
      Offset(Unravel(k, probe.dims), probe.strides) < GetTotalElements(probe.rhs)

\* C28: bind-argument-by-name and bind-output-by-name never change the key
\* set of the named input and output tables of a Computation, whether the
\* name is present or absent.
C28_BindByNameKeepsKeys ==
  [][call'.op \in {"odla_BindToArgumentById", "odla_BindToOutputById"}
     => \A c \in Comps : \A table \in {"inputs", "outputs"} :
          { g_comps'[c][table][i][1] : i \in 1..Len(g_comps'[c][table]) }
            = { g_comps[c][table][i][1] : i \in 1..Len(g_comps[c][table]) }]_vars

\* C29: no bind-output call changes the backing buffer pointer of a constant
\* Value, also when the Value bound is a Reshape result on the constant's
\* memory: such a bind copies to the caller's buffer and repoints nothing.
C29_ConstantBufferKept ==
  [][call'.op \in {"odla_BindToOutput", "odla_BindToOutputById"}
     => \A hd \in ValueHandles(g_comps) :
          Val(Heap, hd).is_const =>
            /\ g_comps'[hd[1]].vals[hd[2]].mem = Val(Heap, hd).mem
            /\ mems'[Val(Heap, hd).mem].h = mems[Val(Heap, hd).mem].h]_vars

\* C30: whenever a plan is replayed through a Context, by Execute or by the
\* immediate-mode drain, the plan replayed is that of the Computation the
\* Context references and the Context's stream was created on that
\* Computation's engine, whatever create-computation, set-active-computation
\* and create-context calls came before.
C30_ReplayMatchesContext ==
  /\ call.op = "odla_ExecuteComputation" =>
       /\ ctxs[call.ctx].comp = call.comp
       /\ ctxs[call.ctx].stream /\ ctxs[call.ctx].eng = ctxs[call.ctx].comp
  /\ (/\ build.interpreter /\ call.op = "odla_Sigmoid" /\ call.status = RETURNED
      /\ g_interpret_mode[call.t]) =>
       /\ interp_context.comp = call.comp
       /\ interp_context.stream /\ interp_context.eng = interp_context.comp

\* C31: constructing a Constant with splatting ends for every element count
\* and every element width: the replication loop stops and never writes at
\* or past the end of the data buffer, also when the element count is not a
\* multiple of the element width in bytes.
C31_SplatTerminates ==
  (probe.fn = "Constant" /\ probe.stage = 1 /\ probe.splat) => probe.ok

\* C32: a Value keeps the element type it was created with: the storage of
\* an argument created with element type T (float32, int32, int64, bfloat16)
\* is described with the data type of T, and the type query reports T for
\* arguments and constants alike.
C32_ElementTypeKept ==
  /\ (call.op = "odla_CreateArgument" /\ call.status = RETURNED) =>
       mems[Val(Heap, call.ret).mem].dt = getDataType(call.element_type)
  /\ (call.op = "odla_GetValueType" /\ call.status = ODLA_SUCCESS) =>
       \A T \in ElementTypes : <<call.v, T>> \in made.types => call.element_type = T

\* C33: the Value returned by a lowering call that appended at least one
\* plan entry is a new member of the active Computation's registry and is
\* backed by the destination buffer of the last entry the call appended (for
\* a convolution the primitive's destination, the destination repack's
\* target or the bias add's result, whichever came last).  The entries of
\* an immediate-mode call are read from the plan as the compiled build
\* keeps it.
C33_ResultOnLastDestination ==
  [][(/\ call' # call
      /\ call'.op \in PlanOps /\ call'.status = RETURNED
      /\ g_comps'[call'.comp].nent > g_comps[call'.comp].nent)
     => LET c    == call'.comp
            plan == IF build.interpreter THEN twin'.comps[c].args
                    ELSE g_comps'[c].args
            last == plan[Len(plan)]
        IN  /\ c = g_comp[call'.t]
            /\ call'.ret \notin ValueHandles(g_comps)
            /\ call'.ret \in ValueHandles(g_comps') /\ call'.ret[1] = c
            /\ last.tag = g_comps'[c].nent
            /\ mems'[g_comps'[c].vals[call'.ret[2]].mem].h = mems'[last.dst].h]_vars

\* A convolution whose destination is repacked and whose bias is added has
\* returned in a compiled build: its result is on the destination of the
\* bias add, the last of the three entries, and no longer on the repack's.
C33_Witness ==
  /\ ~build.interpreter
  /\ call.op \in {"odla_Conv", "odla_DeConv"} /\ call.status = RETURNED
  /\ call.bias # NullValue /\ call.pd = [w |-> FALSE, s |-> FALSE, d |-> TRUE]
  /\ LET c == g_comps[call.comp] IN
       /\ Len(c.args) = 3 /\ c.primitives[3].kind = "binary_add"
       /\ c.vals[call.ret[2]].mem = c.args[3].dst
       /\ c.args[3].dst # c.args[2].dst
====
